---- MODULE Spec2Model ----
(***************************************************************************)
(* Model of the swarm-provenance SDK: the byte/hash codec, the metadata    *)
(* model, the notary signature verifier and the gateway client             *)
(* (src/src/utils.ts, src/unnamed/part_004 = metadata.ts,                  *)
(* src/src/notary.ts, src/src/client.ts).                                  *)
(*                                                                         *)
(* Strings and byte arrays are sequences of integers: a character is its   *)
(* code point, a byte its value.  A SHA-256 hex digest is idealised as a   *)
(* collision-free bracketed copy of the hashed bytes, <<-1>> \o b \o <<-2>>*)
(* (lower-case hex); <<-3>> \o b \o <<-2>> is the same digest written in   *)
(* upper-case hex.  An optional value (a field that may be undefined) is a *)
(* set with at most one element.                                           *)
(***************************************************************************)
EXTENDS Integers, Sequences, FiniteSets, TLC

VARIABLES
  client,   \* the ProvenanceClient instance: gatewayUrl, timeout
  ops       \* the invocations of its methods, by caller

\* ------------------------------------------------------------------------
\* Optional values
\* ------------------------------------------------------------------------
None == {}

Some(x) == {x}

Get(o) == CHOOSE x \in o : TRUE

\* ------------------------------------------------------------------------
\* Byte/Hash codec (src/src/utils.ts)
\* ------------------------------------------------------------------------
HexOpen == 0 - 1

HexClose == 0 - 2

HexOpenUpper == 0 - 3

RECURSIVE Utf8(_)
\* TextEncoder.encode: code points below 128 are one byte, below 2048 two.
Utf8(s) ==
  IF s = <<>> THEN <<>>
  ELSE LET c == Head(s)
       IN (IF c < 128 THEN <<c>>
           ELSE <<192 + (c \div 64), 128 + (c % 64)>>) \o Utf8(Tail(s))

\* toBytes: a content value is [kind |-> "string" | "bytes", v |-> sequence]
toBytes(input) == IF input.kind = "bytes" THEN input.v ELSE Utf8(input.v)

Str(s) == [kind |-> "string", v |-> s]

Bytes(b) == [kind |-> "bytes", v |-> b]

\* sha256Hex: lower-case hex digest of toBytes(data)
sha256Hex(data) == <<HexOpen>> \o toBytes(data) \o <<HexClose>>

\* code of the i-th character of the base64 alphabet A-Z a-z 0-9 + /
B64Char(i) ==
  IF i < 26 THEN 65 + i
  ELSE IF i < 52 THEN 97 + (i - 26)
  ELSE IF i < 62 THEN 48 + (i - 52)
  ELSE IF i = 62 THEN 43 ELSE 47

B64Pad == 61

\* value of a base64 character, -1 for a character outside the alphabet
B64Val(c) ==
  IF c >= 65 /\ c <= 90 THEN c - 65
  ELSE IF c >= 97 /\ c <= 122 THEN c - 97 + 26
  ELSE IF c >= 48 /\ c <= 57 THEN c - 48 + 52
  ELSE IF c = 43 THEN 62
  ELSE IF c = 47 THEN 63
  ELSE 0 - 1

RECURSIVE bytesToBase64(_)
\* Buffer.from(bytes).toString('base64'): RFC 4648 with padding
bytesToBase64(b) ==
  IF Len(b) = 0 THEN <<>>
  ELSE IF Len(b) = 1 THEN
    <<B64Char(b[1] \div 4), B64Char((b[1] % 4) * 16), B64Pad, B64Pad>>
  ELSE IF Len(b) = 2 THEN
    <<B64Char(b[1] \div 4),
      B64Char((b[1] % 4) * 16 + (b[2] \div 16)),
      B64Char((b[2] % 16) * 4), B64Pad>>
  ELSE
    <<B64Char(b[1] \div 4),
      B64Char((b[1] % 4) * 16 + (b[2] \div 16)),
      B64Char((b[2] % 16) * 4 + (b[3] \div 64)),
      B64Char(b[3] % 64)>> \o bytesToBase64(SubSeq(b, 4, Len(b)))

RECURSIVE B64Sextets(_)
\* the sextets of a base64 string up to its first padding character,
\* characters outside the alphabet skipped (Buffer's lenient decoder)
B64Sextets(s) ==
  IF s = <<>> \/ Head(s) = B64Pad THEN <<>>
  ELSE IF B64Val(Head(s)) < 0 THEN B64Sextets(Tail(s))
  ELSE <<B64Val(Head(s))>> \o B64Sextets(Tail(s))

RECURSIVE SextetsToBytes(_)
SextetsToBytes(x) ==
  IF Len(x) < 2 THEN <<>>
  ELSE IF Len(x) = 2 THEN <<x[1] * 4 + (x[2] \div 16)>>
  ELSE IF Len(x) = 3 THEN
    <<x[1] * 4 + (x[2] \div 16), (x[2] % 16) * 16 + (x[3] \div 4)>>
  ELSE
    <<x[1] * 4 + (x[2] \div 16), (x[2] % 16) * 16 + (x[3] \div 4),
      (x[3] % 4) * 64 + x[4]>> \o SextetsToBytes(SubSeq(x, 5, Len(x)))

\* new Uint8Array(Buffer.from(base64, 'base64'))
base64ToBytes(base64) == SextetsToBytes(B64Sextets(base64))

RECURSIVE toLowerCase(_)
\* String.prototype.toLowerCase on ASCII letters; an upper-case hex digest
\* becomes the lower-case one
toLowerCase(s) ==
  IF s = <<>> THEN <<>>
  ELSE LET c == Head(s)
       IN <<IF c >= 65 /\ c <= 90 THEN c + 32
            ELSE IF c = HexOpenUpper THEN HexOpen ELSE c>> \o toLowerCase(Tail(s))

\* mutant: the hash is taken over the base64 text instead of the bytes
buildMetadata_hashesText(content, options) ==
  LET bytes == toBytes(content)
  IN [data |-> Some(bytesToBase64(bytes)),
      content_hash |-> Some(sha256Hex(Str(bytesToBase64(bytes)))),
      stamp_id |-> Some(options.stampId),
      provenance_standard |->
        IF options.standard # None /\ Get(options.standard) # <<>>
        THEN options.standard ELSE None,
      encryption |->
        IF options.encryption # None /\ Get(options.encryption) # <<>>
        THEN options.encryption ELSE None,
      signatures |-> None]

\* ------------------------------------------------------------------------
\* Metadata model (src/unnamed/part_004, the SDK's metadata.ts)
\* A ProvenanceMetadata object is a record of optional string fields; the
\* field "signatures" is the extra key a flattened gateway body carries.
\* ------------------------------------------------------------------------
buildMetadata(content, options) ==
  LET bytes == toBytes(content)
  IN [data |-> Some(bytesToBase64(bytes)),
      content_hash |-> Some(sha256Hex(Bytes(bytes))),
      stamp_id |-> Some(options.stampId),
      provenance_standard |->
        IF options.standard # None /\ Get(options.standard) # <<>>
        THEN options.standard ELSE None,
      encryption |->
        IF options.encryption # None /\ Get(options.encryption) # <<>>
        THEN options.encryption ELSE None,
      signatures |-> None]

\* base64ToBytes(undefined) throws a TypeError
extractContentThrows(metadata) == metadata.data = None

extractContent(metadata) == base64ToBytes(Get(metadata.data))

\* mutant: the stored hash compared without regard to case
verifyContentHash_anyCase(metadata) ==
  /\ metadata.content_hash # None
  /\ toLowerCase(Get(metadata.content_hash))
       = sha256Hex(Bytes(extractContent(metadata)))

verifyContentHash(metadata) ==
  metadata.content_hash = Some(sha256Hex(Bytes(extractContent(metadata))))

\* ------------------------------------------------------------------------
\* Signature verifier (src/src/notary.ts)
\* A NotarySignature is [signer, data_hash, hashed_fields]; hashed_fields is
\* a sequence of field names.
\* ------------------------------------------------------------------------
\* Array.prototype.join renders an undefined element as the empty string
FieldOrEmpty(o) == IF o = None THEN <<>> ELSE Get(o)

HashedFieldValue(field, metadata) ==
  IF field = "content_hash" THEN FieldOrEmpty(metadata.content_hash)
  ELSE IF field = "data" THEN FieldOrEmpty(metadata.data)
  ELSE IF field = "stamp_id" THEN FieldOrEmpty(metadata.stamp_id)
  ELSE IF field = "provenance_standard"
    THEN FieldOrEmpty(metadata.provenance_standard)
  ELSE <<>>

RECURSIVE JoinHashedFields(_, _)
JoinHashedFields(hashedFields, metadata) ==
  IF hashedFields = <<>> THEN <<>>
  ELSE HashedFieldValue(Head(hashedFields), metadata)
         \o JoinHashedFields(Tail(hashedFields), metadata)

verifyDataHash(signature, metadata) ==
  sha256Hex(Str(JoinHashedFields(signature.hashed_fields, metadata)))
    = signature.data_hash

\* ------------------------------------------------------------------------
\* Canonical-JSON verifier (the notary module carried in src/src/types.ts)
\* ------------------------------------------------------------------------
\* the characters of a field name
FieldChars(field) ==
  CASE field = "content_hash" ->
         <<99, 111, 110, 116, 101, 110, 116, 95, 104, 97, 115, 104>>
    [] field = "data" -> <<100, 97, 116, 97>>
    [] field = "stamp_id" -> <<115, 116, 97, 109, 112, 95, 105, 100>>
    [] field = "provenance_standard" ->
         <<112, 114, 111, 118, 101, 110, 97, 110, 99, 101, 95,
           115, 116, 97, 110, 100, 97, 114, 100>>
    [] field = "encryption" ->
         <<101, 110, 99, 114, 121, 112, 116, 105, 111, 110>>
    [] OTHER -> <<122>>

RECURSIVE JsonEscape(_)
\* JSON.stringify of a string, between the quotes: " and \ are escaped
JsonEscape(s) ==
  IF s = <<>> THEN <<>>
  ELSE (IF Head(s) \in {34, 92} THEN <<92, Head(s)>> ELSE <<Head(s)>>)
         \o JsonEscape(Tail(s))

JsonQuote(s) == <<34>> \o JsonEscape(s) \o <<34>>

\* JSON.stringify(undefined) is undefined, which concatenates as 'undefined'
JsonPrimitive(o) ==
  IF o = None THEN <<117, 110, 100, 101, 102, 105, 110, 101, 100>>
  ELSE JsonQuote(Get(o))

RECURSIVE CharsLess(_, _)
\* the order of Array.prototype.sort without a comparator
CharsLess(a, b) ==
  IF b = <<>> THEN FALSE
  ELSE IF a = <<>> THEN TRUE
  ELSE IF Head(a) # Head(b) THEN Head(a) < Head(b)
  ELSE CharsLess(Tail(a), Tail(b))

\* obj[field] = value: an own key is overwritten in place, a new one appended
SetProperty(obj, field, value) ==
  IF \E i \in DOMAIN obj : obj[i].key = field
  THEN [i \in DOMAIN obj |->
          IF obj[i].key = field THEN [key |-> field, value |-> value]
          ELSE obj[i]]
  ELSE Append(obj, [key |-> field, value |-> value])

RECURSIVE ObjectFromFields(_, _, _)
\* the loop of verifyDataHash over hashed_fields
ObjectFromFields(hashedFields, metadata, obj) ==
  IF hashedFields = <<>> THEN obj
  ELSE LET field == Head(hashedFields)
           next ==
             IF field = "content_hash"
               THEN SetProperty(obj, field, metadata.content_hash)
             ELSE IF field = "data"
               THEN SetProperty(obj, field, metadata.data)
             ELSE IF field = "stamp_id"
               THEN SetProperty(obj, field, metadata.stamp_id)
             ELSE IF field = "provenance_standard"
               THEN SetProperty(obj, field,
                      IF metadata.provenance_standard = None THEN Some(<<>>)
                      ELSE metadata.provenance_standard)
             ELSE obj
       IN ObjectFromFields(Tail(hashedFields), metadata, next)

RECURSIVE SortKeys(_)
\* Object.keys(value).sort(): the least key first
SortKeys(keys) ==
  IF keys = {} THEN <<>>
  ELSE LET least == CHOOSE k \in keys :
             \A other \in keys \ {k} : CharsLess(FieldChars(k), FieldChars(other))
       IN <<least>> \o SortKeys(keys \ {least})

RECURSIVE JoinPairs(_)
\* pairs.join(',')
JoinPairs(pairs) ==
  IF pairs = <<>> THEN <<>>
  ELSE IF Len(pairs) = 1 THEN pairs[1]
  ELSE pairs[1] \o <<44>> \o JoinPairs(Tail(pairs))

\* mutant: the keys are rendered in insertion order
toCanonicalJson_unsorted(obj) ==
  LET pairs == [n \in DOMAIN obj |->
                  JsonQuote(FieldChars(obj[n].key)) \o <<58>>
                    \o JsonPrimitive(obj[n].value)]
  IN <<123>> \o JoinPairs(pairs) \o <<125>>

\* toCanonicalJson of an object whose values are strings or undefined
toCanonicalJson(obj) ==
  LET keys == SortKeys({obj[i].key : i \in DOMAIN obj})
      ValueOf(k) == (CHOOSE i \in DOMAIN obj : obj[i].key = k)
      pairs == [n \in DOMAIN keys |->
                  JsonQuote(FieldChars(keys[n])) \o <<58>>
                    \o JsonPrimitive(obj[ValueOf(keys[n])].value)]
  IN <<123>> \o JoinPairs(pairs) \o <<125>>

\* mutant: the canonical-JSON variant hashes the concatenated values
verifyDataHashCanonical_concatenates(signature, metadata) ==
  verifyDataHash(signature, metadata)

\* verifyDataHash of the canonical-JSON variant
verifyDataHashCanonical(signature, metadata) ==
  LET hashedFields == signature.hashed_fields
      canonicalJson ==
        IF Len(hashedFields) = 1 /\ hashedFields[1] = "data"
        THEN JsonPrimitive(metadata.data)
        ELSE toCanonicalJson(ObjectFromFields(hashedFields, metadata, <<>>))
  IN sha256Hex(Str(canonicalJson)) = signature.data_hash

NoError == [msg |-> "", expected |-> <<>>, got |-> <<>>]

\* mutant: the signer is compared before the data hash
verifySignature_signerFirst(signature, metadata, expectedSigner) ==
  IF /\ expectedSigner # None /\ Get(expectedSigner) # <<>>
     /\ toLowerCase(signature.signer) # toLowerCase(Get(expectedSigner))
  THEN [valid |-> FALSE, dataHashValid |-> verifyDataHash(signature, metadata),
        signerValid |-> Some(FALSE),
        error |-> Some([msg |-> "Signer mismatch",
                        expected |-> Get(expectedSigner),
                        got |-> signature.signer])]
  ELSE IF ~verifyDataHash(signature, metadata) THEN
    [valid |-> FALSE, dataHashValid |-> FALSE, signerValid |-> None,
     error |-> Some([NoError EXCEPT !.msg = "Data hash mismatch"])]
  ELSE
    [valid |-> TRUE, dataHashValid |-> TRUE,
     signerValid |-> IF expectedSigner # None /\ Get(expectedSigner) # <<>>
                     THEN Some(TRUE) ELSE None,
     error |-> None]

\* mutant: the signers are compared as written
verifySignature_caseSensitive(signature, metadata, expectedSigner) ==
  IF ~verifyDataHash(signature, metadata) THEN
    [valid |-> FALSE, dataHashValid |-> FALSE, signerValid |-> None,
     error |-> Some([NoError EXCEPT !.msg = "Data hash mismatch"])]
  ELSE IF expectedSigner # None /\ Get(expectedSigner) # <<>> THEN
    IF signature.signer # Get(expectedSigner) THEN
      [valid |-> FALSE, dataHashValid |-> TRUE, signerValid |-> Some(FALSE),
       error |-> Some([msg |-> "Signer mismatch",
                       expected |-> Get(expectedSigner),
                       got |-> signature.signer])]
    ELSE
      [valid |-> TRUE, dataHashValid |-> TRUE, signerValid |-> Some(TRUE),
       error |-> None]
  ELSE
    [valid |-> TRUE, dataHashValid |-> TRUE, signerValid |-> None,
     error |-> None]

verifySignature(signature, metadata, expectedSigner) ==
  IF ~verifyDataHash(signature, metadata) THEN
    [valid |-> FALSE, dataHashValid |-> FALSE, signerValid |-> None,
     error |-> Some([NoError EXCEPT !.msg = "Data hash mismatch"])]
  ELSE IF expectedSigner # None /\ Get(expectedSigner) # <<>> THEN
    IF toLowerCase(signature.signer) # toLowerCase(Get(expectedSigner)) THEN
      [valid |-> FALSE, dataHashValid |-> TRUE, signerValid |-> Some(FALSE),
       error |-> Some([msg |-> "Signer mismatch",
                       expected |-> Get(expectedSigner),
                       got |-> signature.signer])]
    ELSE
      [valid |-> TRUE, dataHashValid |-> TRUE, signerValid |-> Some(TRUE),
       error |-> None]
  ELSE
    [valid |-> TRUE, dataHashValid |-> TRUE, signerValid |-> None,
     error |-> None]

\* mutant: allValid computed with some() instead of every()
verifyAllSignatures_some(signatures, metadata, expectedSigner) ==
  LET results == [i \in 1..Len(signatures) |->
                    LET result == verifySignature(signatures[i], metadata,
                                                  expectedSigner)
                    IN [index |-> i - 1, valid |-> result.valid,
                        error |-> result.error]]
  IN [allValid |-> \E i \in 1..Len(results) : results[i].valid,
      results |-> results]

\* mutant: the results are numbered from one
verifyAllSignatures_oneBased(signatures, metadata, expectedSigner) ==
  LET results == [i \in 1..Len(signatures) |->
                    LET result == verifySignature(signatures[i], metadata,
                                                  expectedSigner)
                    IN [index |-> i, valid |-> result.valid,
                        error |-> result.error]]
  IN [allValid |-> \A i \in 1..Len(results) : results[i].valid,
      results |-> results]

verifyAllSignatures(signatures, metadata, expectedSigner) ==
  LET results == [i \in 1..Len(signatures) |->
                    LET result == verifySignature(signatures[i], metadata,
                                                  expectedSigner)
                    IN [index |-> i - 1, valid |-> result.valid,
                        error |-> result.error]]
  IN [allValid |-> \A i \in 1..Len(results) : results[i].valid,
      results |-> results]

\* ------------------------------------------------------------------------
\* Error taxonomy (src/src/errors.ts)
\* ------------------------------------------------------------------------
ErrorValue(cls, message, statusCode, code) ==
  [cls |-> cls, message |-> message, statusCode |-> statusCode, code |-> code]

ProvenanceError(message, code) ==
  ErrorValue("ProvenanceError", message, None, code)

GatewayConnectionError(message, statusCode, code) ==
  ErrorValue("GatewayConnectionError", message, statusCode, code)

StampError(message, code) == ErrorValue("StampError", message, None, code)

NotaryError(message, code) == ErrorValue("NotaryError", message, None, code)

\* errors of the JavaScript runtime, outside the SDK's taxonomy
NativeError(cls) == ErrorValue(cls, <<cls>>, None, None)

TypedErrors ==
  {"ProvenanceError", "GatewayConnectionError", "StampError", "NotaryError",
   "VerificationError"}

\* ------------------------------------------------------------------------
\* Gateway client (src/src/client.ts)
\* ------------------------------------------------------------------------
DEFAULT_GATEWAY_URL == [base |-> "https://provenance-gateway.dev.datafund.io",
                        slashes |-> 0]

DEFAULT_TIMEOUT == 30000

\* constructor: gatewayUrl with one trailing slash removed, timeout defaulted
NewClient(config) ==
  LET url == IF config.gatewayUrl = None THEN DEFAULT_GATEWAY_URL
             ELSE Get(config.gatewayUrl)
  IN [gatewayUrl |-> [url EXCEPT !.slashes = IF @ > 0 THEN @ - 1 ELSE 0],
      timeout |-> IF config.timeout = None THEN DEFAULT_TIMEOUT
                  ELSE Get(config.timeout),
      build |-> "esm"]

\* the CommonJS build of the package (src/unnamed/part_003): another default
\* gateway, and a fetch that passes the request's headers on as they are
DEFAULT_GATEWAY_URL_CJS ==
  [base |-> "https://provenance-gateway.datafund.io", slashes |-> 0]

NewClientCjs(config) ==
  LET url == IF config.gatewayUrl = None THEN DEFAULT_GATEWAY_URL_CJS
             ELSE Get(config.gatewayUrl)
  IN [gatewayUrl |-> [url EXCEPT !.slashes = IF @ > 0 THEN @ - 1 ELSE 0],
      timeout |-> IF config.timeout = None THEN DEFAULT_TIMEOUT
                  ELSE Get(config.timeout),
      build |-> "cjs"]

\* Response.ok
ResponseOk(response) == response.status >= 200 /\ response.status <= 299

NoHeaders == [ContentType |-> None, XPaymentMode |-> None]

\* fetch: X-Payment-Mode: free unless the request already sets the header
MergeHeaders(headers) ==
  IF headers.XPaymentMode = None
  THEN [headers EXCEPT !.XPaymentMode = Some("free")] ELSE headers

NoQuery == [stamp_id |-> None, content_type |-> None, sign |-> None]

NoBody == [kind |-> "none"]

Request(method, path, ref, query, headers, body) ==
  [method |-> method, path |-> path, ref |-> ref, query |-> query,
   headers |-> headers, body |-> body]

\* what the awaited fetch() of ProvenanceClient.fetch produced
FetchReturned(response) ==
  [threw |-> FALSE, response |-> Some(response), error |-> None]

FetchThrew(error) == [threw |-> TRUE, response |-> None, error |-> Some(error)]

handleError(response) ==
  LET fallback == <<"Gateway error:", response.status>>
  IN GatewayConnectionError(
       IF response.json /\ response.detail # None /\ Get(response.detail) # ""
       THEN <<Get(response.detail)>> ELSE fallback,
       Some(response.status),
       IF response.json THEN response.code ELSE None)

NoOutcome == [kind |-> "none", value |-> None, error |-> None]

Return(value) == [kind |-> "return", value |-> Some(value), error |-> None]

Throw(error) == [kind |-> "throw", value |-> None, error |-> Some(error)]

\* the part of each method that follows its awaited fetch ------------------
\* mutant: the transport exception is not swallowed
healthAfter_rethrows(fr) ==
  IF fr.threw THEN Throw(Get(fr.error)) ELSE Return(ResponseOk(Get(fr.response)))

healthAfter(fr) ==
  IF fr.threw THEN Return(FALSE) ELSE Return(ResponseOk(Get(fr.response)))

\* mutant: a 404 is reported like every other gateway error
notaryInfoAfter_raises404(fr) ==
  IF fr.threw THEN Throw(Get(fr.error))
  ELSE LET response == Get(fr.response)
       IN IF ~ResponseOk(response) THEN Throw(handleError(response))
          ELSE IF ~response.json THEN Throw(NativeError("SyntaxError"))
          ELSE Return([enabled |-> response.payload.enabled,
                       available |-> response.payload.available,
                       address |-> response.payload.address,
                       message |-> response.payload.message])

notaryInfoAfter(fr) ==
  IF fr.threw THEN Throw(Get(fr.error))
  ELSE LET response == Get(fr.response)
       IN IF ~ResponseOk(response) THEN
            IF response.status = 404
            THEN Return([enabled |-> FALSE, available |-> FALSE,
                         address |-> None, message |-> None])
            ELSE Throw(handleError(response))
          ELSE IF ~response.json THEN Throw(NativeError("SyntaxError"))
          ELSE Return([enabled |-> response.payload.enabled,
                       available |-> response.payload.available,
                       address |-> response.payload.address,
                       message |-> response.payload.message])

poolStatusAfter(fr) ==
  IF fr.threw THEN Throw(Get(fr.error))
  ELSE LET response == Get(fr.response)
       IN IF ~ResponseOk(response) THEN
            IF response.status = 404
            THEN Return([enabled |-> FALSE, available |-> {},
                         reserve |-> {}])
            ELSE Throw(handleError(response))
          ELSE IF ~response.json THEN Throw(NativeError("SyntaxError"))
          ELSE Return([enabled |-> response.payload.enabled,
                       available |-> response.payload.available,
                       reserve |-> response.payload.reserve])

\* mutant: a 5xx response is passed on as the gateway error
acquireStampAfter_passes5xx(fr) ==
  IF fr.threw THEN Throw(Get(fr.error))
  ELSE LET response == Get(fr.response)
       IN IF ~ResponseOk(response) THEN
            LET error == handleError(response)
            IN IF response.status >= 500 THEN Throw(error)
               ELSE Throw(StampError(error.message, error.code))
          ELSE IF ~response.json THEN Throw(NativeError("SyntaxError"))
          ELSE Return([batchId |-> response.payload.batch_id,
                       depth |-> response.payload.depth,
                       sizeName |-> response.payload.size_name,
                       fallbackUsed |-> response.payload.fallback_used])

acquireStampAfter(fr) ==
  IF fr.threw THEN Throw(Get(fr.error))
  ELSE LET response == Get(fr.response)
       IN IF ~ResponseOk(response) THEN
            LET error == handleError(response)
            IN Throw(StampError(error.message, error.code))
          ELSE IF ~response.json THEN Throw(NativeError("SyntaxError"))
          ELSE Return([batchId |-> response.payload.batch_id,
                       depth |-> response.payload.depth,
                       sizeName |-> response.payload.size_name,
                       fallbackUsed |-> response.payload.fallback_used])

\* one invocation of a client method -------------------------------------
NoArgs ==
  [size |-> "small", content |-> Str(<<>>), stampId |-> None,
   poolSize |-> None, standard |-> None, sign |-> None,
   contentType |-> None, reference |-> <<>>, verify |-> None]

NoLocals ==
  [stampId |-> None, metadata |-> None, signatures |-> None, file |-> None]

IdleOp ==
  [kind |-> "none", pc |-> "idle", args |-> NoArgs, reqs |-> <<>>,
   received |-> <<>>, locals |-> NoLocals, outcome |-> NoOutcome]

Done(o, outcome) == [o EXCEPT !.pc = "done", !.outcome = outcome]

\* ProvenanceClient.fetch up to its await: controller, timer, merged headers
fetchSend(o, c, req, pc) ==
  [o EXCEPT
     !.reqs = Append(@, [method |-> req.method,
                         url |-> [base |-> c.gatewayUrl, path |-> req.path,
                                  ref |-> req.ref, query |-> req.query],
                         headers |-> IF c.build = "cjs" THEN req.headers
                                     ELSE MergeHeaders(req.headers),
                         body |-> req.body,
                         timeout |-> c.timeout,
                         timer |-> "armed",
                         aborted |-> FALSE]),
     !.pc = pc]

\* mutant: no finally block, the timer is left running
fetchSettle_keepsTimer(o, aborted) ==
  [o EXCEPT !.reqs[Len(o.reqs)].aborted = aborted]

\* ProvenanceClient.fetch after its await: the finally block clears the timer
fetchSettle(o, aborted) ==
  [o EXCEPT !.reqs[Len(o.reqs)].timer = "cleared",
            !.reqs[Len(o.reqs)].aborted = aborted]

acquireStampSend(o, c, size) ==
  fetchSend(o, c,
            Request("POST", "/api/v1/pool/acquire", None, NoQuery,
                    [NoHeaders EXCEPT !.ContentType = Some("application/json")],
                    [kind |-> "json", size |-> size]),
            "acquire")

\* upload, from metadata construction to the POST
uploadPost(o, c, stampId) ==
  LET bytes == toBytes(o.args.content)
      metadata == buildMetadata(Bytes(bytes),
                                [stampId |-> stampId,
                                 standard |-> o.args.standard,
                                 encryption |-> None])
      query == [stamp_id |-> Some(stampId),
                content_type |->
                  IF o.args.contentType # None /\ Get(o.args.contentType) # ""
                  THEN o.args.contentType ELSE None,
                sign |-> IF o.args.sign = Some("notary")
                         THEN Some("notary") ELSE None]
  IN fetchSend([o EXCEPT !.locals.stampId = Some(stampId),
                         !.locals.metadata = Some(metadata)],
               c,
               Request("POST", "/api/v1/data/", None, query, NoHeaders,
                       [kind |-> "form", file |-> metadata]),
               "post")

\* mutant: a stamp is acquired from the pool whatever the options say
uploadStart_alwaysAcquires(o, c) ==
  acquireStampSend(o, c, IF o.args.poolSize = None THEN "small"
                         ELSE Get(o.args.poolSize))

\* mutant: a stamp some invocation has acquired is used again
uploadStart_reusesStamp(o, c) ==
  LET cached == {ops[q].locals.stampId : q \in DOMAIN ops} \ {None}
  IN IF o.args.stampId = None \/ Get(o.args.stampId) = <<>>
     THEN IF cached # {}
          THEN uploadPost(o, c, Get(CHOOSE s \in cached : TRUE))
          ELSE acquireStampSend(o, c, IF o.args.poolSize = None THEN "small"
                                      ELSE Get(o.args.poolSize))
     ELSE uploadPost(o, c, Get(o.args.stampId))

\* upload, stamp resolution
uploadStart(o, c) ==
  IF o.args.stampId = None \/ Get(o.args.stampId) = <<>>
  THEN acquireStampSend(o, c, IF o.args.poolSize = None THEN "small"
                              ELSE Get(o.args.poolSize))
  ELSE uploadPost(o, c, Get(o.args.stampId))

\* mutant: a failed acquire is tried again
uploadAfterAcquire_retries(o, c, fr) ==
  LET stamp == acquireStampAfter(fr)
  IN IF stamp.kind = "throw"
     THEN acquireStampSend(o, c, IF o.args.poolSize = None THEN "small"
                                 ELSE Get(o.args.poolSize))
     ELSE uploadPost(o, c, Get(stamp.value).batchId)

\* mutant: with sign = 'notary' a failed acquire is reported as a NotaryError
uploadAfterAcquire_signWraps(o, c, fr) ==
  LET stamp == acquireStampAfter(fr)
  IN IF stamp.kind = "throw"
     THEN IF o.args.sign = Some("notary")
          THEN Done(o, Throw(NotaryError(Get(stamp.error).message,
                                         Get(stamp.error).code)))
          ELSE Done(o, stamp)
     ELSE uploadPost(o, c, Get(stamp.value).batchId)

uploadAfterAcquire(o, c, fr) ==
  LET stamp == acquireStampAfter(fr)
  IN IF stamp.kind = "throw" THEN Done(o, stamp)
     ELSE uploadPost(o, c, Get(stamp.value).batchId)

\* mutant: the sign option is not consulted, the gateway error is rethrown
uploadAfterPost_noWrap(o, fr) ==
  IF fr.threw THEN Done(o, Throw(Get(fr.error)))
  ELSE LET response == Get(fr.response)
       IN IF ~ResponseOk(response) THEN Done(o, Throw(handleError(response)))
          ELSE IF ~response.json
            THEN Done(o, Throw(NativeError("SyntaxError")))
          ELSE Done(o, Return(
                 [reference |-> response.payload.reference,
                  metadata |-> Get(o.locals.metadata),
                  signedDocument |-> response.payload.signed_document]))

\* mutant: with sign = 'notary' a transport failure is wrapped as well
uploadAfterPost_wrapsAll(o, fr) ==
  IF fr.threw THEN
    IF o.args.sign = Some("notary")
    THEN Done(o, Throw(NotaryError(Get(fr.error).message, Get(fr.error).code)))
    ELSE Done(o, Throw(Get(fr.error)))
  ELSE LET response == Get(fr.response)
       IN IF ~ResponseOk(response) THEN
            LET error == handleError(response)
            IN IF o.args.sign = Some("notary")
               THEN Done(o, Throw(NotaryError(error.message, error.code)))
               ELSE Done(o, Throw(error))
          ELSE IF ~response.json
            THEN Done(o, Throw(NativeError("SyntaxError")))
          ELSE Done(o, Return(
                 [reference |-> response.payload.reference,
                  metadata |-> Get(o.locals.metadata),
                  signedDocument |-> response.payload.signed_document]))

\* upload, the signed document of the result: the gateway's metadata and
\* signatures are copied as they came
signedDocumentOf(data) ==
  IF data.signed_document = None THEN None
  ELSE Some([metadata |-> Get(data.signed_document).metadata,
             signatures |-> Get(data.signed_document).signatures])

\* mutant: the result carries the gateway's copy of the metadata
uploadAfterPost_gatewayMetadata(o, fr) ==
  IF fr.threw THEN Done(o, Throw(Get(fr.error)))
  ELSE LET response == Get(fr.response)
       IN IF ~ResponseOk(response) THEN
            LET error == handleError(response)
            IN IF o.args.sign = Some("notary")
               THEN Done(o, Throw(NotaryError(error.message, error.code)))
               ELSE Done(o, Throw(error))
          ELSE IF ~response.json
            THEN Done(o, Throw(NativeError("SyntaxError")))
          ELSE Done(o, Return(
                 [reference |-> response.payload.reference,
                  metadata |->
                    IF response.payload.signed_document = None
                    THEN Get(o.locals.metadata)
                    ELSE Get(response.payload.signed_document).metadata,
                  signedDocument |-> signedDocumentOf(response.payload)]))

uploadAfterPost(o, fr) ==
  IF fr.threw THEN Done(o, Throw(Get(fr.error)))
  ELSE LET response == Get(fr.response)
       IN IF ~ResponseOk(response) THEN
            LET error == handleError(response)
            IN IF o.args.sign = Some("notary")
               THEN Done(o, Throw(NotaryError(error.message, error.code)))
               ELSE Done(o, Throw(error))
          ELSE IF ~response.json
            THEN Done(o, Throw(NativeError("SyntaxError")))
          ELSE Done(o, Return(
                 [reference |-> response.payload.reference,
                  metadata |-> Get(o.locals.metadata),
                  signedDocument |-> signedDocumentOf(response.payload)]))

\* download: the two response shapes
normalizeDownload(data) ==
  IF data.metadata # None
  THEN [metadata |-> Get(data.metadata), signatures |-> data.signatures]
  ELSE [metadata |-> [data |-> data.data,
                      content_hash |-> data.content_hash,
                      stamp_id |-> data.stamp_id,
                      provenance_standard |-> data.provenance_standard,
                      encryption |-> data.encryption,
                      signatures |-> data.signatures],
        signatures |-> None]

\* mutant: the verify option is ignored
shouldVerify_always(signatures, verify) ==
  /\ signatures # None
  /\ Len(Get(signatures)) > 0

\* the test of download that guards the notary-info request
shouldVerify(signatures, verify) ==
  /\ signatures # None
  /\ Len(Get(signatures)) > 0
  /\ verify # Some(FALSE)

DownloadResult(file, metadata, signatures, verified) ==
  [file |-> file, metadata |-> metadata, signatures |-> signatures,
   verified |-> verified]

downloadAfterGet(o, c, fr) ==
  IF fr.threw THEN Done(o, Throw(Get(fr.error)))
  ELSE LET response == Get(fr.response)
       IN IF ~ResponseOk(response) THEN Done(o, Throw(handleError(response)))
          ELSE IF ~response.json
            THEN Done(o, Throw(NativeError("SyntaxError")))
          ELSE
            LET n == normalizeDownload(response.payload)
            IN IF extractContentThrows(n.metadata)
               THEN Done(o, Throw(NativeError("TypeError")))
               ELSE IF ~verifyContentHash(n.metadata)
               THEN Done(o, Throw(ProvenanceError(
                      <<"Content hash verification failed">>,
                      Some("CONTENT_HASH_MISMATCH"))))
               ELSE
                 LET o1 == [o EXCEPT
                              !.locals.metadata = Some(n.metadata),
                              !.locals.signatures = n.signatures,
                              !.locals.file = Some(extractContent(n.metadata))]
                 IN IF shouldVerify(n.signatures, o.args.verify)
                    THEN fetchSend(o1, c,
                                   Request("GET", "/api/v1/notary/info", None,
                                           NoQuery, NoHeaders, NoBody),
                                   "notary")
                    ELSE Done(o1, Return(DownloadResult(
                           extractContent(n.metadata), n.metadata,
                           n.signatures, None)))

\* mutant: a failed signature check is thrown instead of reported
downloadAfterNotary_throws(o, fr) ==
  LET notary == notaryInfoAfter(fr)
  IN IF notary.kind = "throw" THEN Done(o, notary)
     ELSE LET verification ==
                verifyAllSignatures(Get(o.locals.signatures),
                                    Get(o.locals.metadata),
                                    Get(notary.value).address)
          IN IF ~verification.allValid
             THEN Done(o, Throw(ErrorValue("VerificationError",
                                           <<"Signature verification failed">>,
                                           None, None)))
             ELSE Done(o, Return(DownloadResult(
                    Get(o.locals.file), Get(o.locals.metadata),
                    o.locals.signatures, Some(TRUE))))

\* mutant: when the notary info cannot be had the content is delivered
\* unverified
downloadAfterNotary_degrades(o, fr) ==
  LET notary == notaryInfoAfter(fr)
  IN IF notary.kind = "throw"
     THEN Done(o, Return(DownloadResult(
            Get(o.locals.file), Get(o.locals.metadata),
            o.locals.signatures, Some(FALSE))))
     ELSE LET verification ==
                verifyAllSignatures(Get(o.locals.signatures),
                                    Get(o.locals.metadata),
                                    Get(notary.value).address)
          IN Done(o, Return(DownloadResult(
               Get(o.locals.file), Get(o.locals.metadata),
               o.locals.signatures, Some(verification.allValid))))

downloadAfterNotary(o, fr) ==
  LET notary == notaryInfoAfter(fr)
  IN IF notary.kind = "throw" THEN Done(o, notary)
     ELSE LET verification ==
                verifyAllSignatures(Get(o.locals.signatures),
                                    Get(o.locals.metadata),
                                    Get(notary.value).address)
          IN Done(o, Return(DownloadResult(
               Get(o.locals.file), Get(o.locals.metadata),
               o.locals.signatures, Some(verification.allValid))))

\* the code that runs when the awaited fetch of invocation o settles
AfterFetch(o, c, fr) ==
  CASE o.pc = "health" -> Done(o, healthAfter(fr))
    [] o.pc = "pool" -> Done(o, poolStatusAfter(fr))
    [] o.pc = "notary" /\ o.kind = "notaryInfo" -> Done(o, notaryInfoAfter(fr))
    [] o.pc = "notary" /\ o.kind = "download" -> downloadAfterNotary(o, fr)
    [] o.pc = "acquire" /\ o.kind = "acquireStamp" ->
         Done(o, acquireStampAfter(fr))
    [] o.pc = "acquire" /\ o.kind = "upload" -> uploadAfterAcquire(o, c, fr)
    [] o.pc = "post" -> uploadAfterPost(o, fr)
    [] o.pc = "get" -> downloadAfterGet(o, c, fr)

Awaiting(o) == o.pc \in {"health", "pool", "notary", "acquire", "post", "get"}

\* ------------------------------------------------------------------------
\* Inputs: what callers pass and what the gateway answers
\* ------------------------------------------------------------------------
MaxSigs == 2

ContentH == <<104>>

ContentHi == <<104, 105>>

StampCaller == <<115, 49>>

StampPool == <<115, 50>>

NotaryAddress == <<48, 120, 65, 66>>

SignerSameLower == <<48, 120, 97, 98>>

SignerOther == <<48, 120, 99, 100>>

UpperHex(digest) == [digest EXCEPT ![1] = HexOpenUpper]

Metadata(data, contentHash) ==
  [data |-> data, content_hash |-> contentHash,
   stamp_id |-> Some(StampCaller), provenance_standard |-> None,
   encryption |-> None, signatures |-> None]

\* the document the gateway's signatures were made for
SignedMetadata ==
  Metadata(Some(bytesToBase64(ContentH)), Some(sha256Hex(Bytes(ContentH))))

GatewayMetadata ==
  {Metadata(d, h) :
     d \in {None, Some(bytesToBase64(ContentH)), Some(bytesToBase64(ContentHi))},
     h \in {None, Some(sha256Hex(Bytes(ContentH))),
            Some(UpperHex(sha256Hex(Bytes(ContentH)))),
            Some(sha256Hex(Bytes(ContentHi)))}}

SignedHash(hashedFields) ==
  sha256Hex(Str(JoinHashedFields(hashedFields, SignedMetadata)))

Signature(signer, hashedFields, dataHash) ==
  [signer |-> signer, hashed_fields |-> hashedFields, data_hash |-> dataHash]

GatewaySignatures ==
  {Signature(s, <<"data">>, SignedHash(<<"data">>)) :
     s \in {SignerSameLower, SignerOther}}
  \cup {Signature(s, <<"content_hash", "stamp_id">>,
                  SignedHash(<<"content_hash", "stamp_id">>)) :
          s \in {SignerSameLower, SignerOther}}
  \cup {Signature(s, <<"data">>, sha256Hex(Str(<<>>))) :
          s \in {SignerSameLower, SignerOther}}

SignatureLists ==
  UNION {[1..n -> GatewaySignatures] : n \in 0..MaxSigs}

WrappedBody(metadata, signatures) ==
  [metadata |-> Some(metadata), data |-> None, content_hash |-> None,
   stamp_id |-> None, provenance_standard |-> None, encryption |-> None,
   signatures |-> signatures]

FlattenedBody(metadata, signatures) ==
  [metadata |-> None, data |-> metadata.data,
   content_hash |-> metadata.content_hash, stamp_id |-> metadata.stamp_id,
   provenance_standard |-> metadata.provenance_standard,
   encryption |-> metadata.encryption, signatures |-> signatures]

DownloadBodies ==
  {WrappedBody(m, s) : m \in GatewayMetadata,
                       s \in {None} \cup {Some(l) : l \in SignatureLists}}
  \cup {FlattenedBody(m, s) : m \in GatewayMetadata,
                              s \in {None} \cup {Some(l) : l \in SignatureLists}}

NotaryBodies ==
  {[enabled |-> TRUE, available |-> TRUE, address |-> a, message |-> None] :
     a \in {None, Some(<<>>), Some(NotaryAddress)}}

\* available and reserve map a size name to a count: a set of <<size, count>>
PoolBodies ==
  {[enabled |-> TRUE, available |-> {<<"small", 3>>},
    reserve |-> {<<"small", 1>>}]}

AcquireBodies ==
  {[batch_id |-> StampPool, depth |-> 17, size_name |-> "small",
    fallback_used |-> f] : f \in BOOLEAN}

UploadBodies ==
  {[reference |-> <<114, 49>>, signed_document |-> d] :
     d \in {None,
            Some([metadata |-> SignedMetadata,
                  signatures |-> <<Signature(SignerOther, <<"data">>,
                                             sha256Hex(Str(<<>>)))>>])}}

HealthBodies == {[status |-> "ok"]}

OkStatuses == {200, 201}

ErrStatuses == {400, 404, 500}

Payloads(pc) ==
  CASE pc = "health" -> HealthBodies
    [] pc = "pool" -> PoolBodies
    [] pc = "notary" -> NotaryBodies
    [] pc = "acquire" -> AcquireBodies
    [] pc = "post" -> UploadBodies
    [] pc = "get" -> DownloadBodies

Response(status, json, detail, code, payload) ==
  [status |-> status, json |-> json, detail |-> detail, code |-> code,
   payload |-> payload]

\* every response the gateway may give to the request awaited at pc
Responses(pc) ==
  {Response(st, TRUE, None, None, b) : st \in OkStatuses, b \in Payloads(pc)}
  \cup {Response(200, FALSE, None, None, None)}
  \cup {Response(st, TRUE, Some("Gateway says no"), Some("E_GATEWAY"), None) :
          st \in ErrStatuses}
  \cup {Response(st, TRUE, Some(""), None, None) : st \in ErrStatuses}
  \cup {Response(st, FALSE, None, None, None) : st \in ErrStatuses}

\* the ways the platform fetch() may reject
Rejections ==
  {[isError |-> TRUE, name |-> "TypeError", message |-> Some("fetch failed")],
   [isError |-> FALSE, name |-> "", message |-> None]}

AbortRejection ==
  [isError |-> TRUE, name |-> "AbortError",
   message |-> Some("This operation was aborted")]

\* catch block of ProvenanceClient.fetch
fetchCatch(rejection) ==
  IF rejection.isError /\ rejection.name = "AbortError"
  THEN GatewayConnectionError(<<"Request timed out">>, None, Some("TIMEOUT"))
  ELSE GatewayConnectionError(
         IF rejection.isError THEN <<Get(rejection.message)>>
         ELSE <<"Failed to connect to gateway">>,
         None, Some("CONNECTION_FAILED"))

ClientConfigs ==
  {[gatewayUrl |-> None, timeout |-> None],
   [gatewayUrl |-> Some([base |-> "https://gateway.example", slashes |-> 1]),
    timeout |-> Some(100)]}

UploadArgs ==
  {[NoArgs EXCEPT !.content = c, !.stampId = s, !.poolSize = ps,
                  !.standard = sd, !.sign = sg, !.contentType = ct] :
     c \in {Str(<<104>>), Str(<<233>>), Bytes(ContentHi)},
     s \in {None, Some(<<>>), Some(StampCaller)},
     ps \in {None, Some("large")},
     sd \in {None, Some(<<>>), Some(<<112>>)},
     sg \in {None, Some("notary")},
     ct \in {None, Some("text/plain")}}

\* a reference as a caller may paste it: a space, then 64 upper-case hex
\* digits
ReferencePadded == <<32>> \o [i \in 1..64 |-> 65]

DownloadArgs ==
  {[NoArgs EXCEPT !.reference = r, !.verify = v] :
     r \in {<<97, 98>>, ReferencePadded},
     v \in {None, Some(TRUE), Some(FALSE)}}

\* ------------------------------------------------------------------------
\* State machine
\* ------------------------------------------------------------------------
vars == <<client, ops>>

Init ==
  /\ client \in {NewClient(config) : config \in ClientConfigs}
  /\ ops = [p \in {"main"} |-> IdleOp]

Call(kind, args) == [IdleOp EXCEPT !.kind = kind, !.args = args]

CallHealth ==
  \E p \in DOMAIN ops :
    /\ ops[p].pc = "idle"
    /\ ops' = [ops EXCEPT ![p] =
         fetchSend(Call("health", NoArgs), client,
                   Request("GET", "/health", None, NoQuery, NoHeaders, NoBody),
                   "health")]
    /\ UNCHANGED client

CallNotaryInfo ==
  \E p \in DOMAIN ops :
    /\ ops[p].pc = "idle"
    /\ ops' = [ops EXCEPT ![p] =
         fetchSend(Call("notaryInfo", NoArgs), client,
                   Request("GET", "/api/v1/notary/info", None, NoQuery,
                           NoHeaders, NoBody),
                   "notary")]
    /\ UNCHANGED client

CallPoolStatus ==
  \E p \in DOMAIN ops :
    /\ ops[p].pc = "idle"
    /\ ops' = [ops EXCEPT ![p] =
         fetchSend(Call("poolStatus", NoArgs), client,
                   Request("GET", "/api/v1/pool/status", None, NoQuery,
                           NoHeaders, NoBody),
                   "pool")]
    /\ UNCHANGED client

CallAcquireStamp ==
  \E p \in DOMAIN ops, size \in {"small", "medium", "large"} :
    /\ ops[p].pc = "idle"
    /\ ops' = [ops EXCEPT ![p] =
         acquireStampSend(Call("acquireStamp", [NoArgs EXCEPT !.size = size]),
                          client, size)]
    /\ UNCHANGED client

CallUpload ==
  \E p \in DOMAIN ops, args \in UploadArgs :
    /\ ops[p].pc = "idle"
    /\ ops' = [ops EXCEPT ![p] = uploadStart(Call("upload", args), client)]
    /\ UNCHANGED client

CallDownload ==
  \E p \in DOMAIN ops, args \in DownloadArgs :
    /\ ops[p].pc = "idle"
    /\ ops' = [ops EXCEPT ![p] =
         fetchSend(Call("download", args), client,
                   Request("GET", "/api/v1/data/", Some(args.reference),
                           NoQuery, NoHeaders, NoBody),
                   "get")]
    /\ UNCHANGED client

\* the awaited fetch settles: the timer is cleared, the result is recorded
\* in the invocation's history and the method runs on to its next await
Settle(o, fr, aborted) ==
  AfterFetch([fetchSettle(o, aborted) EXCEPT !.received = Append(@, fr)],
             client, fr)

GatewayRespond ==
  \E p \in DOMAIN ops :
    /\ Awaiting(ops[p])
    /\ \E response \in Responses(ops[p].pc) :
         ops' = [ops EXCEPT ![p] =
           Settle(ops[p], FetchReturned(response), FALSE)]
    /\ UNCHANGED client

NetworkFail ==
  \E p \in DOMAIN ops, rejection \in Rejections :
    /\ Awaiting(ops[p])
    /\ ops' = [ops EXCEPT ![p] =
         Settle(ops[p], FetchThrew(fetchCatch(rejection)), FALSE)]
    /\ UNCHANGED client

\* the i-th request of o is the one its fetch is awaiting
InFlight(o, i) == i = Len(o.reqs) /\ Len(o.received) < i

\* mutant: one abort controller for the whole client: a timer that fires
\* aborts every request in flight
Timeout_sharedController ==
  \E p \in DOMAIN ops :
    \E i \in DOMAIN ops[p].reqs :
      /\ ops[p].reqs[i].timer = "armed"
      /\ ops' = [q \in DOMAIN ops |->
           IF Awaiting(ops[q])
           THEN Settle(ops[q], FetchThrew(fetchCatch(AbortRejection)), TRUE)
           ELSE ops[q]]
      /\ UNCHANGED client

\* a timer that is still armed fires: controller.abort(); an awaited fetch
\* rejects with an AbortError, an ended one is not affected
Timeout ==
  \E p \in DOMAIN ops :
    \E i \in DOMAIN ops[p].reqs :
      /\ ops[p].reqs[i].timer = "armed"
      /\ ops' = [ops EXCEPT ![p] =
           IF InFlight(ops[p], i)
           THEN Settle(ops[p], FetchThrew(fetchCatch(AbortRejection)), TRUE)
           ELSE [ops[p] EXCEPT !.reqs[i].timer = "fired",
                               !.reqs[i].aborted = TRUE]]
      /\ UNCHANGED client

\* the caller takes the result; the invocation is over
Finish ==
  \E p \in DOMAIN ops :
    /\ ops[p].pc = "done"
    /\ ops' = [ops EXCEPT ![p] = IdleOp]
    /\ UNCHANGED client

Next ==
  \/ CallHealth
  \/ CallNotaryInfo
  \/ CallPoolStatus
  \/ CallAcquireStamp
  \/ CallUpload
  \/ CallDownload
  \/ GatewayRespond
  \/ NetworkFail
  \/ Timeout
  \/ Finish

Spec == Init /\ [][Next]_vars

\* ------------------------------------------------------------------------
\* Two callers share one client instance. The methods are those of Spec;
\* the arguments and the gateway's answers are narrowed to one case of each
\* kind, so that all interleavings of two invocations can be enumerated.
\* ------------------------------------------------------------------------
Callers == {"first", "second"}

ScopedArgs(o) ==
  CASE o.kind = "upload" ->
         /\ o.args.content = Str(ContentH)
         /\ o.args.stampId \in {None, Some(StampCaller)}
         /\ o.args.poolSize = None
         /\ o.args.standard = None
         /\ o.args.contentType = None
    [] o.kind = "download" ->
         /\ o.args.reference = <<97, 98>>
         /\ o.args.verify = None
    [] o.kind = "acquireStamp" -> o.args.size = "small"
    [] OTHER -> TRUE

ScopedPayload(req, body) ==
  CASE req.url.path = "/api/v1/notary/info" ->
         body.address = Some(NotaryAddress)
    [] req.url.path = "/api/v1/pool/acquire" -> ~body.fallback_used
    [] req.url.path = "/api/v1/data/" /\ req.method = "POST" ->
         body.signed_document = None
    [] req.url.path = "/api/v1/data/" /\ req.method = "GET" ->
         body \in {WrappedBody(SignedMetadata, None),
                   WrappedBody(SignedMetadata,
                     Some(<<Signature(SignerSameLower, <<"data">>,
                                      SignedHash(<<"data">>))>>))}
    [] OTHER -> TRUE

ScopedAnswer(req, fr) ==
  IF fr.threw THEN Get(fr.error).message # <<"Failed to connect to gateway">>
  ELSE LET response == Get(fr.response)
       IN /\ response.json
          /\ response.status \in {200, 500}
          /\ response.status = 500 => response.detail # Some("")
          /\ response.status = 200 => ScopedPayload(req, response.payload)

InScope ==
  \A p \in DOMAIN ops :
    /\ ScopedArgs(ops[p])
    /\ \A i \in DOMAIN ops[p].received :
         ScopedAnswer(ops[p].reqs[i], ops[p].received[i])

ConcurrentInit ==
  /\ client = NewClient([gatewayUrl |-> None, timeout |-> None])
  /\ ops = [p \in Callers |-> IdleOp]

ConcurrentNext ==
  \/ CallHealth /\ InScope'
  \/ CallNotaryInfo /\ InScope'
  \/ CallPoolStatus /\ InScope'
  \/ CallAcquireStamp /\ InScope'
  \/ CallUpload /\ InScope'
  \/ CallDownload /\ InScope'
  \/ GatewayRespond /\ InScope'
  \/ NetworkFail /\ InScope'
  \/ Timeout /\ InScope'
  \/ Finish

ConcurrentSpec == ConcurrentInit /\ [][ConcurrentNext]_vars

\* ------------------------------------------------------------------------
\* The client of the CommonJS build: the methods whose code is that of
\* src/src/client.ts (download differs and is left out)
\* ------------------------------------------------------------------------
CjsInit ==
  /\ client \in {NewClientCjs(config) : config \in ClientConfigs}
  /\ ops = [p \in {"main"} |-> IdleOp]

CjsNext ==
  \/ CallHealth
  \/ CallNotaryInfo
  \/ CallPoolStatus
  \/ CallAcquireStamp
  \/ CallUpload
  \/ GatewayRespond
  \/ NetworkFail
  \/ Timeout
  \/ Finish

CjsSpec == CjsInit /\ [][CjsNext]_vars

\* ------------------------------------------------------------------------
\* Metadata serialization (src/unnamed/part_004, the SDK's metadata.ts)
\* A JSON text is the sequence of its characters.
\* ------------------------------------------------------------------------
\* JSON.stringify(metadata): the own properties in creation order
serializeMetadata(metadata) ==
  LET member(field, o) ==
        IF o = None THEN <<>>
        ELSE <<JsonQuote(FieldChars(field)) \o <<58>> \o JsonQuote(Get(o))>>
  IN <<123>>
       \o JoinPairs(member("data", metadata.data)
                      \o member("content_hash", metadata.content_hash)
                      \o member("stamp_id", metadata.stamp_id)
                      \o member("provenance_standard",
                                metadata.provenance_standard)
                      \o member("encryption", metadata.encryption))
       \o <<125>>

\* JSON.parse, for texts without whitespace made of strings, null, unsigned
\* integers, the empty array and objects of these
ParseFail == [ok |-> FALSE, value |-> [kind |-> "undefined"], next |-> 0]

Parsed(value, next) == [ok |-> TRUE, value |-> value, next |-> next]

StartsWith(t, i, w) ==
  i + Len(w) - 1 <= Len(t) /\ SubSeq(t, i, i + Len(w) - 1) = w

RECURSIVE ParseStringBody(_, _, _)
\* from the character after the opening quote to the closing quote
ParseStringBody(t, i, acc) ==
  IF i > Len(t) THEN ParseFail
  ELSE IF t[i] = 34 THEN Parsed([kind |-> "string", s |-> acc], i + 1)
  ELSE IF t[i] = 92 THEN
    IF i + 1 <= Len(t) /\ t[i + 1] \in {34, 92, 47}
    THEN ParseStringBody(t, i + 2, Append(acc, t[i + 1]))
    ELSE ParseFail
  ELSE ParseStringBody(t, i + 1, Append(acc, t[i]))

RECURSIVE SkipDigits(_, _)
SkipDigits(t, i) ==
  IF i <= Len(t) /\ t[i] \in 48..57 THEN SkipDigits(t, i + 1) ELSE i

ParseScalar(t, i) ==
  IF i > Len(t) THEN ParseFail
  ELSE IF t[i] = 34 THEN ParseStringBody(t, i + 1, <<>>)
  ELSE IF StartsWith(t, i, <<110, 117, 108, 108>>)
    THEN Parsed([kind |-> "null"], i + 4)
  ELSE IF t[i] \in 48..57 THEN Parsed([kind |-> "number"], SkipDigits(t, i))
  ELSE IF StartsWith(t, i, <<91, 93>>) THEN Parsed([kind |-> "array"], i + 2)
  ELSE ParseFail

RECURSIVE ParseMembers(_, _, _)
\* "key":value , ... } from the opening quote of a key
ParseMembers(t, i, members) ==
  IF i > Len(t) \/ t[i] # 34 THEN ParseFail
  ELSE LET key == ParseStringBody(t, i + 1, <<>>)
       IN IF ~key.ok \/ key.next > Len(t) \/ t[key.next] # 58 THEN ParseFail
          ELSE LET value == ParseScalar(t, key.next + 1)
               IN IF ~value.ok \/ value.next > Len(t) THEN ParseFail
                  ELSE LET all == Append(members, [key |-> key.value.s,
                                                   value |-> value.value])
                       IN IF t[value.next] = 125
                          THEN Parsed([kind |-> "object", members |-> all],
                                      value.next + 1)
                          ELSE IF t[value.next] = 44
                            THEN ParseMembers(t, value.next + 1, all)
                          ELSE ParseFail

JsonParse(t) ==
  LET r == IF StartsWith(t, 1, <<123, 125>>)
             THEN Parsed([kind |-> "object", members |-> <<>>], 3)
           ELSE IF t # <<>> /\ t[1] = 123 THEN ParseMembers(t, 2, <<>>)
           ELSE ParseScalar(t, 1)
  IN IF r.ok /\ r.next = Len(t) + 1 THEN r ELSE ParseFail

\* obj[field]: the last member of that name, undefined without one
Property(obj, field) ==
  LET at == IF obj.kind = "object"
            THEN {i \in DOMAIN obj.members :
                    obj.members[i].key = FieldChars(field)}
            ELSE {}
  IN IF at = {} THEN [kind |-> "undefined"]
     ELSE obj.members[CHOOSE i \in at : \A j \in at : j <= i].value

\* new Error(message)
PlainError(message) == ErrorValue("Error", <<message>>, None, None)

\* mutant: the encryption field is not copied
parseMetadata_dropsEncryption(json) ==
  LET parsed == JsonParse(json)
      obj == parsed.value
  IN IF ~parsed.ok
       THEN Throw(NativeError("SyntaxError"))
     ELSE IF obj.kind \notin {"object", "array"}
       THEN Throw(PlainError("Invalid metadata: expected object"))
     ELSE IF Property(obj, "data").kind # "string"
       THEN Throw(PlainError(
              "Invalid metadata: missing or invalid data field"))
     ELSE IF Property(obj, "content_hash").kind # "string"
       THEN Throw(PlainError(
              "Invalid metadata: missing or invalid content_hash field"))
     ELSE IF Property(obj, "stamp_id").kind # "string"
       THEN Throw(PlainError(
              "Invalid metadata: missing or invalid stamp_id field"))
     ELSE Return(
            [data |-> Some(Property(obj, "data").s),
             content_hash |-> Some(Property(obj, "content_hash").s),
             stamp_id |-> Some(Property(obj, "stamp_id").s),
             provenance_standard |->
               IF Property(obj, "provenance_standard").kind = "string"
               THEN Some(Property(obj, "provenance_standard").s) ELSE None,
             encryption |-> None,
             signatures |-> None])

\* mutant: stamp_id is checked before data and content_hash
parseMetadata_checksStampFirst(json) ==
  LET parsed == JsonParse(json)
      obj == parsed.value
  IN IF ~parsed.ok
       THEN Throw(NativeError("SyntaxError"))
     ELSE IF obj.kind \notin {"object", "array"}
       THEN Throw(PlainError("Invalid metadata: expected object"))
     ELSE IF Property(obj, "stamp_id").kind # "string"
       THEN Throw(PlainError(
              "Invalid metadata: missing or invalid stamp_id field"))
     ELSE IF Property(obj, "data").kind # "string"
       THEN Throw(PlainError(
              "Invalid metadata: missing or invalid data field"))
     ELSE IF Property(obj, "content_hash").kind # "string"
       THEN Throw(PlainError(
              "Invalid metadata: missing or invalid content_hash field"))
     ELSE Return(
            [data |-> Some(Property(obj, "data").s),
             content_hash |-> Some(Property(obj, "content_hash").s),
             stamp_id |-> Some(Property(obj, "stamp_id").s),
             provenance_standard |->
               IF Property(obj, "provenance_standard").kind = "string"
               THEN Some(Property(obj, "provenance_standard").s) ELSE None,
             encryption |->
               IF Property(obj, "encryption").kind = "string"
               THEN Some(Property(obj, "encryption").s) ELSE None,
             signatures |-> None])

\* typeof [] is 'object': an array passes the first check
parseMetadata(json) ==
  LET parsed == JsonParse(json)
      obj == parsed.value
  IN IF ~parsed.ok
       THEN Throw(NativeError("SyntaxError"))
     ELSE IF obj.kind \notin {"object", "array"}
       THEN Throw(PlainError("Invalid metadata: expected object"))
     ELSE IF Property(obj, "data").kind # "string"
       THEN Throw(PlainError(
              "Invalid metadata: missing or invalid data field"))
     ELSE IF Property(obj, "content_hash").kind # "string"
       THEN Throw(PlainError(
              "Invalid metadata: missing or invalid content_hash field"))
     ELSE IF Property(obj, "stamp_id").kind # "string"
       THEN Throw(PlainError(
              "Invalid metadata: missing or invalid stamp_id field"))
     ELSE Return(
            [data |-> Some(Property(obj, "data").s),
             content_hash |-> Some(Property(obj, "content_hash").s),
             stamp_id |-> Some(Property(obj, "stamp_id").s),
             provenance_standard |->
               IF Property(obj, "provenance_standard").kind = "string"
               THEN Some(Property(obj, "provenance_standard").s) ELSE None,
             encryption |->
               IF Property(obj, "encryption").kind = "string"
               THEN Some(Property(obj, "encryption").s) ELSE None,
             signatures |-> None])

\* ------------------------------------------------------------------------
\* The library's synchronous functions, called by the embedding application
\* (exports of src/unnamed/part_004, the SDK's index.ts). An invocation is
\* recorded like a client method's: its arguments and its outcome.
\* ------------------------------------------------------------------------
\* metadata as buildMetadata produces it, for two contents
BuiltMetadata ==
  {buildMetadata(Str(c), [stampId |-> StampCaller, standard |-> s,
                          encryption |-> None]) :
     c \in {ContentH, ContentHi}, s \in {None, Some(<<118, 49>>)}}

HashedFieldLists ==
  {<<"data">>, <<"content_hash", "stamp_id">>, <<"stamp_id", "content_hash">>,
   <<"data", "data">>, <<"data", "signer">>, <<"provenance_standard">>, <<>>,
   <<"content_hash">>, <<"stamp_id", "content_hash", "stamp_id">>}

\* the digest a gateway following either protocol puts into data_hash
ConcatHash(hashedFields, metadata) ==
  sha256Hex(Str(JoinHashedFields(hashedFields, metadata)))

CanonicalHash(hashedFields, metadata) ==
  sha256Hex(Str(
    IF hashedFields = <<"data">> THEN JsonPrimitive(metadata.data)
    ELSE toCanonicalJson(ObjectFromFields(hashedFields, metadata, <<>>))))

\* signatures made for SignedMetadata under either protocol, or for nothing
LibrarySignatures ==
  {Signature(s, f, h) :
     s \in {NotaryAddress, SignerOther},
     f \in HashedFieldLists,
     h \in UNION {{ConcatHash(g, SignedMetadata),
                   CanonicalHash(g, SignedMetadata),
                   UpperHex(ConcatHash(g, SignedMetadata))} :
                  g \in {<<"data">>, <<"content_hash">>,
                         <<"content_hash", "stamp_id">>}}}

ExpectedSigners ==
  {None, Some(<<>>), Some(NotaryAddress), Some(SignerSameLower),
   Some(SignerOther)}

LibraryInit ==
  /\ client = NewClient([gatewayUrl |-> None, timeout |-> None])
  /\ ops = [p \in {"main"} |-> IdleOp]

\* a synchronous call: the invocation is over when the action is
Apply(kind, args, outcome) == Done(Call(kind, args), outcome)

CallVerifySignature ==
  \E p \in DOMAIN ops, signature \in LibrarySignatures,
     metadata \in BuiltMetadata, expectedSigner \in ExpectedSigners :
    /\ ops[p].pc = "idle"
    /\ ops' = [ops EXCEPT ![p] =
         Apply("verifySignature",
               [signature |-> signature, metadata |-> metadata,
                expectedSigner |-> expectedSigner],
               Return(verifySignature(signature, metadata, expectedSigner)))]
    /\ UNCHANGED client

CallVerifyAllSignatures ==
  \E p \in DOMAIN ops, signatures \in SignatureLists,
     metadata \in BuiltMetadata, expectedSigner \in ExpectedSigners :
    /\ ops[p].pc = "idle"
    /\ ops' = [ops EXCEPT ![p] =
         Apply("verifyAllSignatures",
               [signatures |-> signatures, metadata |-> metadata,
                expectedSigner |-> expectedSigner],
               Return(verifyAllSignatures(signatures, metadata,
                                          expectedSigner)))]
    /\ UNCHANGED client

CallVerifyDataHash ==
  \E p \in DOMAIN ops, signature \in LibrarySignatures,
     metadata \in BuiltMetadata :
    /\ ops[p].pc = "idle"
    /\ ops' = [ops EXCEPT ![p] =
         Apply("verifyDataHash",
               [signature |-> signature, metadata |-> metadata],
               Return(verifyDataHash(signature, metadata)))]
    /\ UNCHANGED client

\* the same call against the canonical-JSON variant of the module
CallVerifyDataHashCanonical ==
  \E p \in DOMAIN ops, signature \in LibrarySignatures,
     metadata \in BuiltMetadata :
    /\ ops[p].pc = "idle"
    /\ ops' = [ops EXCEPT ![p] =
         Apply("verifyDataHashCanonical",
               [signature |-> signature, metadata |-> metadata],
               Return(verifyDataHashCanonical(signature, metadata)))]
    /\ UNCHANGED client

\* contents an application passes: strings (one outside ASCII) and bytes
LibraryContents ==
  {Str(<<>>), Str(ContentH), Str(ContentHi), Str(<<233>>),
   Bytes(<<>>), Bytes(ContentH), Bytes(<<255, 0, 16>>)}

BuildOptions ==
  {[stampId |-> s, standard |-> st, encryption |-> e] :
     s \in {StampCaller, StampPool},
     st \in {None, Some(<<>>), Some(<<118, 49>>), Some(<<118, 34, 92>>)},
     e \in {None, Some(<<>>), Some(<<97, 101, 115>>)}}

\* what an application may assign to a field of a metadata object it built:
\* 'aGk=' (hi), 'aB==' and 'aA' (both decode to h), '' ; digests of other
\* content, the own digest in upper case, ''
Changes ==
  {[field |-> "none", value |-> <<>>]}
  \cup {[field |-> "data", value |-> d] :
          d \in {bytesToBase64(ContentHi), <<97, 66, 61, 61>>, <<97, 65>>,
                 <<>>}}
  \cup {[field |-> "content_hash", value |-> h] :
          h \in {sha256Hex(Bytes(ContentHi)), sha256Hex(Bytes(<<>>)),
                 UpperHex(sha256Hex(Bytes(ContentH))), <<>>}}

\* metadata.data = value or metadata.content_hash = value
Changed(metadata, change) ==
  IF change.field = "data" THEN [metadata EXCEPT !.data = Some(change.value)]
  ELSE IF change.field = "content_hash"
    THEN [metadata EXCEPT !.content_hash = Some(change.value)]
  ELSE metadata

CallBuildMetadata ==
  \E p \in DOMAIN ops, content \in LibraryContents, options \in BuildOptions :
    /\ ops[p].pc = "idle"
    /\ ops' = [ops EXCEPT ![p] =
         Apply("buildMetadata", [content |-> content, options |-> options],
               Return(buildMetadata(content, options)))]
    /\ UNCHANGED client

\* extractContent of a metadata object the application built
CallExtractContent ==
  \E p \in DOMAIN ops, content \in LibraryContents, options \in BuildOptions :
    /\ ops[p].pc = "idle"
    /\ ops' = [ops EXCEPT ![p] =
         Apply("extractContent", [content |-> content, options |-> options],
               Return(extractContent(buildMetadata(content, options))))]
    /\ UNCHANGED client

\* verifyContentHash of a metadata object the application built and then,
\* possibly, changed
CallVerifyContentHash ==
  \E p \in DOMAIN ops, content \in LibraryContents, options \in BuildOptions,
     change \in Changes :
    /\ ops[p].pc = "idle"
    /\ ops' = [ops EXCEPT ![p] =
         Apply("verifyContentHash",
               [content |-> content, options |-> options, change |-> change],
               Return(verifyContentHash(
                        Changed(buildMetadata(content, options), change))))]
    /\ UNCHANGED client

\* "key":value
MemberText(key, valueText) == JsonQuote(key) \o <<58>> \o valueText

ObjectText(members) == <<123>> \o JoinPairs(members) \o <<125>>

\* JSON texts with one or more required fields missing or not strings, with
\* an unknown field and with optional fields that are not strings
FieldJsonTexts ==
  {ObjectText(<<MemberText(FieldChars("data"), JsonQuote(<<>>))>>),
   ObjectText(<<MemberText(FieldChars("content_hash"), JsonQuote(<<97>>)),
                MemberText(FieldChars("stamp_id"), JsonQuote(<<120>>))>>),
   ObjectText(<<MemberText(FieldChars("data"), JsonQuote(<<97>>)),
                MemberText(FieldChars("stamp_id"), JsonQuote(<<120>>))>>),
   ObjectText(<<MemberText(FieldChars("data"), JsonQuote(<<97>>)),
                MemberText(FieldChars("content_hash"), <<110, 117, 108, 108>>),
                MemberText(FieldChars("stamp_id"), <<55>>)>>),
   ObjectText(<<MemberText(FieldChars("stamp_id"), JsonQuote(<<120>>)),
                MemberText(<<122>>, JsonQuote(<<122>>)),
                MemberText(FieldChars("provenance_standard"), <<55>>),
                MemberText(FieldChars("content_hash"), JsonQuote(<<97>>)),
                MemberText(FieldChars("encryption"), JsonQuote(<<101>>)),
                MemberText(FieldChars("data"), JsonQuote(<<>>))>>),
   ObjectText(<<MemberText(FieldChars("data"), JsonQuote(<<>>)),
                MemberText(FieldChars("content_hash"), JsonQuote(<<97>>)),
                MemberText(FieldChars("stamp_id"), JsonQuote(<<120>>)),
                MemberText(FieldChars("encryption"), <<91, 93>>)>>),
   JsonQuote(<<120>>)}

\* the JSON texts an application parses: serialized metadata, and texts
\* that are no metadata: null, 7, [], {}, an object without stamp_id, an
\* object whose data is a number, and text that is no JSON
JsonTexts ==
  {serializeMetadata(buildMetadata(c, o)) :
     c \in {Str(ContentH), Bytes(<<255, 0, 16>>)}, o \in BuildOptions}
  \cup {<<110, 117, 108, 108>>, <<55>>, <<91, 93>>, <<123, 125>>,
        <<123>> \o JsonQuote(FieldChars("data")) \o <<58>> \o JsonQuote(<<>>)
          \o <<44>> \o JsonQuote(FieldChars("content_hash")) \o <<58>>
          \o JsonQuote(<<>>) \o <<125>>,
        <<123>> \o JsonQuote(FieldChars("data")) \o <<58, 55, 125>>,
        <<110, 111, 116, 32, 106, 115, 111, 110>>}
  \cup FieldJsonTexts

CallSerializeMetadata ==
  \E p \in DOMAIN ops, content \in LibraryContents, options \in BuildOptions :
    /\ ops[p].pc = "idle"
    /\ ops' = [ops EXCEPT ![p] =
         Apply("serializeMetadata",
               [content |-> content, options |-> options],
               Return(serializeMetadata(buildMetadata(content, options))))]
    /\ UNCHANGED client

CallParseMetadata ==
  \E p \in DOMAIN ops, json \in JsonTexts :
    /\ ops[p].pc = "idle"
    /\ ops' = [ops EXCEPT ![p] =
         Apply("parseMetadata", [json |-> json], parseMetadata(json))]
    /\ UNCHANGED client

\* the calls of the library's functions
LibraryNext ==
  \/ CallVerifySignature
  \/ CallVerifyAllSignatures
  \/ CallVerifyDataHash
  \/ CallVerifyDataHashCanonical
  \/ CallBuildMetadata
  \/ CallExtractContent
  \/ CallVerifyContentHash
  \/ CallSerializeMetadata
  \/ CallParseMetadata
  \/ Finish

LibrarySpec == LibraryInit /\ [][LibraryNext]_vars

\* ------------------------------------------------------------------------
\* Properties
\* ------------------------------------------------------------------------
Invocations(kind) == {p \in DOMAIN ops : ops[p].kind = kind}

Finished(kind) == {p \in Invocations(kind) : ops[p].pc = "done"}

Returned(o) == o.outcome.kind = "return"

Threw(o) == o.outcome.kind = "throw"

\* the i-th awaited fetch of o settled with a 2xx response
GotOk(o, i) ==
  /\ Len(o.received) >= i
  /\ ~o.received[i].threw
  /\ Get(o.received[i].response).status \in 200..299

\* the i-th awaited fetch of o settled with a non-2xx response
GotNotOk(o, i) ==
  /\ Len(o.received) >= i
  /\ ~o.received[i].threw
  /\ Get(o.received[i].response).status \notin 200..299

\* the i-th awaited fetch of o settled with a 2xx response with a JSON body
GotJson(o, i) == GotOk(o, i) /\ Get(o.received[i].response).json

BodyOf(o, i) == Get(o.received[i].response).payload

\* the metadata fields a download body carries, in either shape
BodyMetadata(body) ==
  IF body.metadata # None THEN Get(body.metadata)
  ELSE [data |-> body.data, content_hash |-> body.content_hash,
        stamp_id |-> body.stamp_id,
        provenance_standard |-> body.provenance_standard,
        encryption |-> body.encryption, signatures |-> None]

\* sha256Hex(base64-decode(data)) == content_hash
HashMatches(metadata) ==
  /\ metadata.data # None
  /\ metadata.content_hash
       = Some(sha256Hex(Bytes(base64ToBytes(Get(metadata.data)))))

MetadataFields == {"data", "content_hash", "stamp_id", "provenance_standard",
                   "encryption"}

SameMetadata(m1, m2) ==
  /\ m1.data = m2.data
  /\ m1.content_hash = m2.content_hash
  /\ m1.stamp_id = m2.stamp_id
  /\ m1.provenance_standard = m2.provenance_standard
  /\ m1.encryption = m2.encryption

IsRequest(req, method, path) == req.method = method /\ req.url.path = path

C2_ShapesAgree ==
  \A p \in Finished("download") :
    LET o == ops[p]
    IN (Returned(o) /\ GotJson(o, 1))
       => LET body == BodyOf(o, 1)
              result == Get(o.outcome.value)
          IN /\ SameMetadata(result.metadata, BodyMetadata(body))
             /\ result.signatures = body.signatures
             /\ (/\ body.signatures # None
                 /\ Len(Get(body.signatures)) > 0
                 /\ o.args.verify # Some(FALSE))
                => result.verified # None

\* the i-th awaited fetch of o was answered with a notary-info response
\* the client accepts: a 2xx JSON body or a 404
GotNotaryInfo(o, i) ==
  /\ Len(o.received) >= i
  /\ ~o.received[i].threw
  /\ \/ GotJson(o, i)
     \/ Get(o.received[i].response).status = 404

\* the address that notary-info answer advertises, if any
AdvertisedAddress(o, i) ==
  IF GotJson(o, i) THEN BodyOf(o, i).address ELSE None

SignerIs(signature, address) ==
  toLowerCase(signature.signer) = toLowerCase(address)

\* C3 as stated: whenever download returns verified = true, every returned
\* signature's signer equals, case-insensitively, the address the
\* notary-info request of that download returned, and its data_hash matches
\* the recomputed hash; also when that response is a 404 or has no address.
C3_VerifiedMeansSignerChecked ==
  \A p \in Finished("download") :
    LET o == ops[p]
    IN (Returned(o) /\ Get(o.outcome.value).verified = Some(TRUE))
       => LET result == Get(o.outcome.value)
          IN /\ AdvertisedAddress(o, 2) # None
             /\ \A i \in 1..Len(Get(result.signatures)) :
                  /\ SignerIs(Get(result.signatures)[i],
                              Get(AdvertisedAddress(o, 2)))
                  /\ verifyDataHash(Get(result.signatures)[i], result.metadata)

\* C3 amended: whenever download returns verified = true, every returned
\* signature's data_hash matches the recomputed hash, and if the
\* notary-info response carried a non-empty address every signature's
\* signer equals that address case-insensitively.
C3_VerifiedMeansHashChecked ==
  \A p \in Finished("download") :
    LET o == ops[p]
    IN (Returned(o) /\ Get(o.outcome.value).verified = Some(TRUE))
       => LET result == Get(o.outcome.value)
          IN /\ GotNotaryInfo(o, 2)
             /\ result.signatures # None
             /\ Len(Get(result.signatures)) > 0
             /\ \A i \in 1..Len(Get(result.signatures)) :
                  /\ verifyDataHash(Get(result.signatures)[i], result.metadata)
                  /\ (/\ AdvertisedAddress(o, 2) # None
                      /\ Get(AdvertisedAddress(o, 2)) # <<>>)
                     => SignerIs(Get(result.signatures)[i],
                                 Get(AdvertisedAddress(o, 2)))

\* C3 witness: two signatures whose signer differs from the advertised
\* address only in case were verified against it.
C3_Witness ==
  \E p \in Finished("download") :
    LET o == ops[p]
    IN /\ Returned(o)
       /\ Get(o.outcome.value).verified = Some(TRUE)
       /\ AdvertisedAddress(o, 2) = Some(NotaryAddress)
       /\ Len(Get(Get(o.outcome.value).signatures)) = 2
       /\ Get(Get(o.outcome.value).signatures)[1].signer # NotaryAddress

\* some signature of the list fails its check against the metadata and the
\* advertised address
SomeCheckFails(signatures, metadata, address) ==
  \E i \in 1..Len(signatures) :
    \/ ~verifyDataHash(signatures[i], metadata)
    \/ /\ address # None
       /\ Get(address) # <<>>
       /\ ~SignerIs(signatures[i], Get(address))

\* C4: once the content hash is valid and the notary-info request was
\* answered, download returns normally with the decoded file, the metadata
\* and the signatures; a data-hash or signer mismatch on any signature
\* yields verified = false, never a throw.
C4_SignatureFailureNotFatal ==
  \A p \in Finished("download") :
    LET o == ops[p]
    IN (GotJson(o, 1) /\ HashMatches(BodyMetadata(BodyOf(o, 1)))
        /\ GotNotaryInfo(o, 2))
       => LET metadata == BodyMetadata(BodyOf(o, 1))
              result == Get(o.outcome.value)
          IN /\ Returned(o)
             /\ o.outcome.error = None
             /\ result.file = base64ToBytes(Get(metadata.data))
             /\ SameMetadata(result.metadata, metadata)
             /\ result.signatures = BodyOf(o, 1).signatures
             /\ result.verified # None
             /\ SomeCheckFails(Get(result.signatures), metadata,
                               AdvertisedAddress(o, 2))
                  => result.verified = Some(FALSE)

\* C4 witness: a download returned verified = false because the second of
\* its two signatures names another signer.
C4_Witness ==
  \E p \in Finished("download") :
    LET o == ops[p]
    IN /\ Returned(o)
       /\ Get(o.outcome.value).verified = Some(FALSE)
       /\ AdvertisedAddress(o, 2) = Some(NotaryAddress)
       /\ Len(Get(Get(o.outcome.value).signatures)) = 2
       /\ \A i \in 1..2 :
            verifyDataHash(Get(Get(o.outcome.value).signatures)[i],
                           Get(o.outcome.value).metadata)
       /\ SignerIs(Get(Get(o.outcome.value).signatures)[1], NotaryAddress)
       /\ ~SignerIs(Get(Get(o.outcome.value).signatures)[2], NotaryAddress)

\* the conditions under which download asks for the notary info
VerificationDue(o) ==
  /\ GotJson(o, 1)
  /\ HashMatches(BodyMetadata(BodyOf(o, 1)))
  /\ o.locals.signatures # None
  /\ Len(Get(o.locals.signatures)) > 0
  /\ o.args.verify # Some(FALSE)

C5_WitnessSecondCall ==
  \E p \in Invocations("download") :
    ops[p].pc = "notary" /\ Len(ops[p].reqs) = 2

\* the message the client reports for a non-2xx response: the body's
\* detail, or the status line when the body has none
ReportedMessage(response) ==
  IF response.json /\ response.detail # None /\ Get(response.detail) # ""
  THEN <<Get(response.detail)>>
  ELSE <<"Gateway error:", response.status>>

ReportedCode(response) == IF response.json THEN response.code ELSE None

\* C6: health() issues one GET /health and always resolves to a boolean:
\* true exactly when the request was answered with a 2xx status, false for
\* a non-2xx status, a network failure or a timeout; it never throws.
C6_HealthNeverRaises ==
  \A p \in Invocations("health") :
    LET o == ops[p]
    IN /\ Len(o.reqs) = 1
       /\ IsRequest(o.reqs[1], "GET", "/health")
       /\ ~Threw(o)
       /\ (Len(o.received) >= 1)
            => /\ o.pc = "done"
               /\ Returned(o)
               /\ o.outcome.error = None
               /\ o.outcome.value = Some(GotOk(o, 1))

\* C6 witness: health() resolved to false after its request timed out
C6_Witness ==
  \E p \in Finished("health") :
    LET o == ops[p]
    IN /\ o.received[1].threw
       /\ Get(o.received[1].error).code = Some("TIMEOUT")
       /\ o.reqs[1].aborted
       /\ o.outcome.value = Some(FALSE)

\* C7: acquireStamp turns every non-2xx response, whatever its status, into
\* a StampError carrying the gateway's detail (or the status message) and
\* the gateway's code, without a status code, and returns no stamp.
C7_AcquireStampError ==
  \A p \in Invocations("acquireStamp") :
    LET o == ops[p]
    IN GotNotOk(o, 1)
       => LET response == Get(o.received[1].response)
          IN /\ o.pc = "done"
             /\ Threw(o)
             /\ o.outcome.value = None
             /\ Get(o.outcome.error).cls = "StampError"
             /\ Get(o.outcome.error).message = ReportedMessage(response)
             /\ Get(o.outcome.error).code = ReportedCode(response)
             /\ Get(o.outcome.error).statusCode = None

\* C7 witness: a 500 without a JSON body became a StampError with the
\* fallback message
C7_Witness ==
  \E p \in Finished("acquireStamp") :
    LET o == ops[p]
    IN /\ GotNotOk(o, 1)
       /\ Get(o.received[1].response).status = 500
       /\ ~Get(o.received[1].response).json
       /\ Get(o.outcome.error).cls = "StampError"
       /\ Get(o.outcome.error).message = <<"Gateway error:", 500>>

\* the upload POST of invocation o has been issued and has settled
PostSettled(o) ==
  /\ Len(o.reqs) >= 1
  /\ IsRequest(o.reqs[Len(o.reqs)], "POST", "/api/v1/data/")
  /\ Len(o.received) = Len(o.reqs)

PostResult(o) == o.received[Len(o.received)]

\* C8: a non-2xx response to the upload POST raises a NotaryError with the
\* gateway's message and code if sign = 'notary' was requested, and
\* otherwise the GatewayConnectionError with the HTTP status, message and
\* code; no UploadResult is returned.
C8_UploadFailureClass ==
  \A p \in Invocations("upload") :
    LET o == ops[p]
    IN (PostSettled(o) /\ GotNotOk(o, Len(o.received)))
       => LET response == Get(PostResult(o).response)
              error == Get(o.outcome.error)
          IN /\ o.pc = "done"
             /\ Threw(o)
             /\ o.outcome.value = None
             /\ error.message = ReportedMessage(response)
             /\ error.code = ReportedCode(response)
             /\ IF o.args.sign = Some("notary")
                THEN error.cls = "NotaryError" /\ error.statusCode = None
                ELSE /\ error.cls = "GatewayConnectionError"
                     /\ error.statusCode = Some(response.status)

\* C8 witness: a signing upload that acquired its stamp from the pool got a
\* 400 with detail and code and raised a NotaryError
C8_Witness ==
  \E p \in Finished("upload") :
    LET o == ops[p]
    IN /\ o.args.sign = Some("notary")
       /\ Len(o.reqs) = 2
       /\ PostSettled(o)
       /\ GotNotOk(o, 2)
       /\ Get(PostResult(o).response).status = 400
       /\ Get(o.outcome.error).cls = "NotaryError"
       /\ Get(o.outcome.error).message = <<"Gateway says no">>
       /\ Get(o.outcome.error).code = Some("E_GATEWAY")

\* C8 witness without signing: the gateway error is propagated
C8_WitnessUnsigned ==
  \E p \in Finished("upload") :
    LET o == ops[p]
    IN /\ o.args.sign = None
       /\ PostSettled(o)
       /\ GotNotOk(o, Len(o.received))
       /\ Get(o.outcome.error).cls = "GatewayConnectionError"
       /\ Get(o.outcome.error).statusCode = Some(500)

StampSupplied(o) == o.args.stampId # None /\ Get(o.args.stampId) # <<>>

AcquireRequests(o) ==
  {i \in 1..Len(o.reqs) : IsRequest(o.reqs[i], "POST", "/api/v1/pool/acquire")}

\* C10: with a caller stampId upload issues the POST alone, with that id;
\* otherwise its first request is one acquire for poolSize (default
\* 'small') and the POST follows with the returned batch_id.  The POST's
\* stamp_id parameter and the returned metadata.stamp_id are the resolved id.
C10_StampResolution ==
  \A p \in Invocations("upload") :
    LET o == ops[p]
    IN /\ StampSupplied(o)
          => /\ AcquireRequests(o) = {}
             /\ Len(o.reqs) = 1
             /\ IsRequest(o.reqs[1], "POST", "/api/v1/data/")
             /\ o.reqs[1].url.query.stamp_id = o.args.stampId
             /\ o.locals.stampId = o.args.stampId
       /\ ~StampSupplied(o)
          => /\ AcquireRequests(o) = {1}
             /\ o.reqs[1].body.size
                  = (IF o.args.poolSize = None THEN "small"
                     ELSE Get(o.args.poolSize))
             /\ Len(o.reqs) \in 1..2
             /\ Len(o.reqs) = 2
                => /\ GotJson(o, 1)
                   /\ IsRequest(o.reqs[2], "POST", "/api/v1/data/")
                   /\ o.reqs[2].url.query.stamp_id = Some(BodyOf(o, 1).batch_id)
                   /\ o.locals.stampId = Some(BodyOf(o, 1).batch_id)
       /\ (o.pc = "done" /\ Returned(o))
          => /\ Get(o.outcome.value).metadata.stamp_id = o.locals.stampId
             /\ o.reqs[Len(o.reqs)].url.query.stamp_id = o.locals.stampId
             /\ o.reqs[Len(o.reqs)].body.file.stamp_id = o.locals.stampId
             /\ o.locals.stampId # None

\* C10 witness: an upload with a caller stampId returned after one request
C10_Witness ==
  \E p \in Finished("upload") :
    LET o == ops[p]
    IN /\ Returned(o)
       /\ o.args.stampId = Some(StampCaller)
       /\ Len(o.reqs) = 1
       /\ Get(o.outcome.value).metadata.stamp_id = Some(StampCaller)

\* C10 witness: an upload without stampId, poolSize 'large', returned with
\* the pool's batch_id after an acquire and a POST
C10_WitnessPool ==
  \E p \in Finished("upload") :
    LET o == ops[p]
    IN /\ Returned(o)
       /\ o.args.stampId = None
       /\ o.args.poolSize = Some("large")
       /\ Len(o.reqs) = 2
       /\ o.reqs[1].body.size = "large"
       /\ Get(o.outcome.value).metadata.stamp_id = Some(StampPool)

\* the object each method returns for a gateway without the feature
FeatureDisabled(kind) ==
  IF kind = "notaryInfo"
  THEN [enabled |-> FALSE, available |-> FALSE, address |-> None,
        message |-> None]
  ELSE [enabled |-> FALSE, available |-> {}, reserve |-> {}]

\* C11: a notaryInfo or poolStatus call whose request got a 404 returns
\* {enabled: false, available: false}, respectively {enabled: false,
\* available: {}, reserve: {}}, and does not raise; one whose request got any
\* other non-2xx status raises a GatewayConnectionError carrying that status.
C11_NotFoundMeansDisabled ==
  \A p \in Invocations("notaryInfo") \cup Invocations("poolStatus") :
    LET o == ops[p]
        status == Get(o.received[1].response).status
    IN GotNotOk(o, 1) =>
         IF status = 404
         THEN /\ Returned(o)
              /\ o.outcome.value = Some(FeatureDisabled(o.kind))
         ELSE /\ Threw(o)
              /\ Get(o.outcome.error).cls = "GatewayConnectionError"
              /\ Get(o.outcome.error).statusCode = Some(status)

C11_Witness ==
  \E p \in Invocations("poolStatus") :
    /\ GotNotOk(ops[p], 1)
    /\ Get(ops[p].received[1].response).status = 404
    /\ Returned(ops[p])

C11_WitnessNotary ==
  \E p \in Invocations("notaryInfo") :
    /\ GotNotOk(ops[p], 1)
    /\ Get(ops[p].received[1].response).status = 404
    /\ Returned(ops[p])

C11_WitnessOtherStatus ==
  \E p \in Invocations("notaryInfo") \cup Invocations("poolStatus") :
    /\ GotNotOk(ops[p], 1)
    /\ Get(ops[p].received[1].response).status = 500
    /\ Threw(ops[p])

\* C12: every request is sent with a timer of the configured timeout; while
\* the request is in flight the timer is armed; once it has ended (response,
\* abort or failure) its timer is cleared, so it cannot fire any more; a
\* request ended by its timer was aborted and raised GatewayConnectionError
\* 'Request timed out' with code TIMEOUT and no status code; every other
\* transport failure raised a GatewayConnectionError with code
\* CONNECTION_FAILED and no status code.
C12_TimeoutHandling ==
  \A p \in DOMAIN ops :
    LET o == ops[p]
    IN \A i \in DOMAIN o.reqs :
         LET req == o.reqs[i]
         IN /\ req.timeout = client.timeout
            /\ IF InFlight(o, i)
               THEN req.timer = "armed" /\ ~req.aborted
               ELSE /\ req.timer = "cleared"
                    /\ req.aborted =>
                         /\ o.received[i].threw
                         /\ Get(o.received[i].error) =
                              GatewayConnectionError(<<"Request timed out">>,
                                                     None, Some("TIMEOUT"))
                    /\ (o.received[i].threw /\ ~req.aborted) =>
                         /\ Get(o.received[i].error).cls
                              = "GatewayConnectionError"
                         /\ Get(o.received[i].error).code
                              = Some("CONNECTION_FAILED")
                         /\ Get(o.received[i].error).statusCode = None

\* the second request of an upload is ended by its timer
C12_Witness ==
  \E p \in Invocations("upload") :
    /\ Len(ops[p].received) = 2
    /\ ops[p].reqs[2].aborted
    /\ ops[p].reqs[2].timer = "cleared"
    /\ ops[p].reqs[1].timer = "cleared"
    /\ Get(ops[p].received[2].error).code = Some("TIMEOUT")

C12_WitnessConnectionFailed ==
  \E p \in DOMAIN ops :
    /\ Len(ops[p].received) = 1
    /\ ops[p].received[1].threw
    /\ ~ops[p].reqs[1].aborted
    /\ Get(ops[p].received[1].error).message = <<"Failed to connect to gateway">>

\* the i-th request of o ended without a 2xx response
NotAnswered(o, i) ==
  /\ Len(o.received) >= i
  /\ o.received[i].threw \/ GotNotOk(o, i)

\* ... and is not the 404 by which the gateway reports a feature as disabled
Failed(o, i) ==
  /\ NotAnswered(o, i)
  /\ ~ /\ GotNotOk(o, i)
       /\ Get(o.received[i].response).status = 404
       /\ o.reqs[i].url.path \in {"/api/v1/notary/info", "/api/v1/pool/status"}

RequestSequences(kind) ==
  CASE kind = "health" -> {<<"/health">>}
    [] kind = "notaryInfo" -> {<<"/api/v1/notary/info">>}
    [] kind = "poolStatus" -> {<<"/api/v1/pool/status">>}
    [] kind = "acquireStamp" -> {<<"/api/v1/pool/acquire">>}
    [] kind = "upload" -> {<<"/api/v1/data/">>, <<"/api/v1/pool/acquire">>,
                           <<"/api/v1/pool/acquire", "/api/v1/data/">>}
    [] kind = "download" -> {<<"/api/v1/data/">>,
                             <<"/api/v1/data/", "/api/v1/notary/info">>}
    [] OTHER -> {<<>>}

\* C13: an invocation has at most one request in flight and issues each of
\* its requests once: health, notaryInfo, poolStatus and acquireStamp issue
\* exactly one request, upload at most two (acquire, POST), download at most
\* two (GET, notary info); a request that ended without a 2xx response is
\* the invocation's last, and after a failed one the invocation has ended
\* by raising, or by returning false for health.
C13_NoRetry ==
  \A p \in DOMAIN ops :
    LET o == ops[p]
    IN /\ [i \in DOMAIN o.reqs |-> o.reqs[i].url.path]
            \in RequestSequences(o.kind)
       /\ Len(o.reqs) <= Len(o.received) + 1
       /\ o.pc = "done" => Len(o.received) = Len(o.reqs)
       /\ \A i \in DOMAIN o.reqs :
            /\ NotAnswered(o, i) => (o.pc = "done" /\ Len(o.reqs) = i)
            /\ Failed(o, i) =>
                 IF o.kind = "health" THEN o.outcome = Return(FALSE)
                 ELSE Threw(o)

\* an upload ended by the failure of its POST, after a successful acquire
C13_Witness ==
  \E p \in Invocations("upload") :
    /\ Len(ops[p].reqs) = 2
    /\ GotOk(ops[p], 1)
    /\ Failed(ops[p], 2)
    /\ Threw(ops[p])

\* a download ended by the failure of its notary-info request
C13_WitnessDownload ==
  \E p \in Invocations("download") :
    /\ Len(ops[p].reqs) = 2
    /\ Failed(ops[p], 2)
    /\ ops[p].received[2].threw
    /\ Threw(ops[p])

\* C14: whenever verifyDataHash(signature, metadata) is false,
\* verifySignature returns valid = false, dataHashValid = false, error
\* 'Data hash mismatch' and no signerValid, whether expectedSigner is
\* absent, matches the signer or does not.
C14_DataHashShortCircuit ==
  \A p \in Finished("verifySignature") :
    LET args == ops[p].args
        result == Get(ops[p].outcome.value)
    IN ~verifyDataHash(args.signature, args.metadata) =>
         /\ Returned(ops[p])
         /\ result.valid = FALSE
         /\ result.dataHashValid = FALSE
         /\ result.signerValid = None
         /\ result.error = Some([NoError EXCEPT !.msg = "Data hash mismatch"])

\* a mismatching hash together with a mismatching signer
C14_Witness ==
  \E p \in Finished("verifySignature") :
    LET args == ops[p].args
    IN /\ ~verifyDataHash(args.signature, args.metadata)
       /\ args.expectedSigner = Some(SignerOther)
       /\ args.signature.signer = NotaryAddress
       /\ Get(ops[p].outcome.value).signerValid = None

C14_WitnessMatchingSigner ==
  \E p \in Finished("verifySignature") :
    LET args == ops[p].args
    IN /\ ~verifyDataHash(args.signature, args.metadata)
       /\ args.expectedSigner = Some(args.signature.signer)
       /\ Get(ops[p].outcome.value).valid = FALSE

SignerSupplied(args) ==
  args.expectedSigner # None /\ Get(args.expectedSigner) # <<>>

\* C15: when verifyDataHash(signature, metadata) is true and an expected
\* signer is supplied, verifySignature returns valid = true, signerValid =
\* true exactly when the signer equals it up to letter case, and otherwise
\* valid = false, signerValid = false and an error naming the expected and
\* the actual signer; without an expected signer it returns valid = true
\* and no signerValid.
C15_SignerComparison ==
  \A p \in Finished("verifySignature") :
    LET args == ops[p].args
        result == Get(ops[p].outcome.value)
    IN verifyDataHash(args.signature, args.metadata) =>
         /\ Returned(ops[p])
         /\ result.dataHashValid = TRUE
         /\ IF SignerSupplied(args)
            THEN IF toLowerCase(args.signature.signer)
                      = toLowerCase(Get(args.expectedSigner))
                 THEN /\ result.valid = TRUE
                      /\ result.signerValid = Some(TRUE)
                      /\ result.error = None
                 ELSE /\ result.valid = FALSE
                      /\ result.signerValid = Some(FALSE)
                      /\ result.error # None
                      /\ Get(result.error).expected = Get(args.expectedSigner)
                      /\ Get(result.error).got = args.signature.signer
            ELSE /\ result.valid = TRUE
                 /\ result.signerValid = None
                 /\ result.error = None

\* the signer matches the expected one only up to case
C15_Witness ==
  \E p \in Finished("verifySignature") :
    LET args == ops[p].args
    IN /\ verifyDataHash(args.signature, args.metadata)
       /\ args.signature.signer = NotaryAddress
       /\ args.expectedSigner = Some(SignerSameLower)
       /\ Get(ops[p].outcome.value).signerValid = Some(TRUE)

C15_WitnessMismatch ==
  \E p \in Finished("verifySignature") :
    LET args == ops[p].args
    IN /\ verifyDataHash(args.signature, args.metadata)
       /\ SignerSupplied(args)
       /\ Get(ops[p].outcome.value).signerValid = Some(FALSE)

C15_WitnessNoSigner ==
  \E p \in Finished("verifySignature") :
    LET args == ops[p].args
    IN /\ verifyDataHash(args.signature, args.metadata)
       /\ args.expectedSigner = None
       /\ Get(ops[p].outcome.value).valid = TRUE

\* C16: verifyAllSignatures returns one result per signature, in the order
\* of the list: results[i] has index i (from zero) and the valid and error
\* of verifySignature(signatures[i], metadata, expectedSigner); allValid is
\* the conjunction of the results' valid; for the empty list it returns
\* allValid = true and results = [].
C16_MapsInOrder ==
  \A p \in Finished("verifyAllSignatures") :
    LET args == ops[p].args
        result == Get(ops[p].outcome.value)
        single(i) == verifySignature(args.signatures[i], args.metadata,
                                     args.expectedSigner)
    IN /\ Returned(ops[p])
       /\ Len(result.results) = Len(args.signatures)
       /\ \A i \in 1..Len(args.signatures) :
            /\ result.results[i].index = i - 1
            /\ result.results[i].valid = single(i).valid
            /\ result.results[i].error = single(i).error
       /\ result.allValid
            = (\A i \in 1..Len(result.results) : result.results[i].valid)
       /\ args.signatures = <<>> =>
            result = [allValid |-> TRUE, results |-> <<>>]

\* a valid signature followed by an invalid one
C16_Witness ==
  \E p \in Finished("verifyAllSignatures") :
    LET result == Get(ops[p].outcome.value)
    IN /\ Len(ops[p].args.signatures) = 2
       /\ result.results[1].valid
       /\ ~result.results[2].valid
       /\ result.results[2].index = 1
       /\ ~result.allValid

C16_WitnessEmpty ==
  \E p \in Finished("verifyAllSignatures") :
    /\ ops[p].args.signatures = <<>>
    /\ Get(ops[p].outcome.value).allValid

\* the recognized field names, in ascending order
SortedFieldNames ==
  <<"content_hash", "data", "provenance_standard", "stamp_id">>

RECURSIVE ProtocolPairs(_, _, _)
\* "key":"value" for the recognized names that occur in hashedFields
ProtocolPairs(names, hashedFields, metadata) ==
  IF names = <<>> THEN <<>>
  ELSE LET name == Head(names)
           value == IF name = "content_hash" THEN Get(metadata.content_hash)
                    ELSE IF name = "data" THEN Get(metadata.data)
                    ELSE IF name = "stamp_id" THEN Get(metadata.stamp_id)
                    ELSE IF metadata.provenance_standard = None THEN <<>>
                    ELSE Get(metadata.provenance_standard)
           rest == ProtocolPairs(Tail(names), hashedFields, metadata)
       IN IF \E i \in DOMAIN hashedFields : hashedFields[i] = name
          THEN <<JsonQuote(FieldChars(name)) \o <<58>> \o JsonQuote(value)>>
                 \o rest
          ELSE rest

\* the canonical JSON the protocol hashes
ProtocolJson(hashedFields, metadata) ==
  IF hashedFields = <<"data">> THEN JsonQuote(Get(metadata.data))
  ELSE <<123>>
         \o JoinPairs(ProtocolPairs(SortedFieldNames, hashedFields, metadata))
         \o <<125>>

FollowsProtocol(o) ==
  Get(o.outcome.value)
    = (o.args.signature.data_hash
         = sha256Hex(Str(ProtocolJson(o.args.signature.hashed_fields,
                                      o.args.metadata))))

\* C17: verifyDataHash returns true iff signature.data_hash equals, case
\* and all, sha256Hex of the canonical JSON of V: the bare data string when
\* hashed_fields is exactly ['data'], otherwise the object of the recognized
\* hashed_fields entries (provenance_standard defaulting to ''), keys sorted,
\* no whitespace.
C17_FollowsCanonicalJson ==
  \A p \in Finished("verifyDataHash") : FollowsProtocol(ops[p])

\* the canonical-JSON variant of the module does follow the protocol
CanonicalVariantFollowsProtocol ==
  \A p \in Finished("verifyDataHashCanonical") : FollowsProtocol(ops[p])

\* a digest of the canonical JSON of the data string is rejected
C17_CanonicalDigestRejected ==
  \E p \in Finished("verifyDataHash") :
    LET args == ops[p].args
    IN /\ args.signature.hashed_fields = <<"data">>
       /\ args.metadata = SignedMetadata
       /\ args.signature.data_hash
            = sha256Hex(Str(JsonQuote(Get(args.metadata.data))))
       /\ Get(ops[p].outcome.value) = FALSE

CanonicalVariantAccepts ==
  \E p \in Finished("verifyDataHashCanonical") :
    LET args == ops[p].args
    IN /\ args.signature.hashed_fields = <<"stamp_id", "content_hash">>
       /\ Get(ops[p].outcome.value) = TRUE

\* the bytes a content value stands for
BytesOf(content) ==
  IF content.kind = "bytes" THEN content.v ELSE Utf8(content.v)

\* m = buildMetadata(c, {stampId: s}) has data = base64(bytes(c)),
\* content_hash = sha256Hex(bytes(c)) and stamp_id = s; extractContent(m)
\* is bytes(c)
BuildLaw ==
  /\ \A p \in Finished("buildMetadata") :
       LET args == ops[p].args
           m == Get(ops[p].outcome.value)
       IN /\ Returned(ops[p])
          /\ m.data = Some(bytesToBase64(BytesOf(args.content)))
          /\ m.content_hash = Some(sha256Hex(Bytes(BytesOf(args.content))))
          /\ m.stamp_id = Some(args.options.stampId)
  /\ \A p \in Finished("extractContent") :
       /\ Returned(ops[p])
       /\ Get(ops[p].outcome.value) = BytesOf(ops[p].args.content)

\* the built metadata with the change of the invocation applied
Verified(o) == Changed(buildMetadata(o.args.content, o.args.options),
                       o.args.change)

Unchanged(o) ==
  Verified(o) = buildMetadata(o.args.content, o.args.options)

SameContent(o) ==
  /\ o.args.change.field = "data"
  /\ base64ToBytes(o.args.change.value) = BytesOf(o.args.content)

C18_WitnessDetected ==
  \E p \in Finished("verifyContentHash") :
    /\ ops[p].args.change.field = "data"
    /\ ~SameContent(ops[p])
    /\ Get(ops[p].outcome.value) = FALSE

C18_WitnessBuilt ==
  \E p \in Finished("buildMetadata") :
    /\ ops[p].args.content = Str(<<233>>)
    /\ Get(ops[p].outcome.value).data = Some(<<119, 54, 107, 61>>)

OptionSet(o) == o # None /\ Get(o) # <<>>

\* C19: for every metadata m that buildMetadata produces, with or without
\* standard and encryption, parseMetadata(serializeMetadata(m)) returns an
\* object equal to m: the three required fields, and provenance_standard
\* and encryption present exactly when the option was set and not empty.
C19_RoundTrip ==
  /\ \A p \in Finished("serializeMetadata") :
       LET m == buildMetadata(ops[p].args.content, ops[p].args.options)
           json == Get(ops[p].outcome.value)
       IN /\ Returned(ops[p])
          /\ parseMetadata(json) = Return(m)
          /\ (m.provenance_standard # None)
               = OptionSet(ops[p].args.options.standard)
          /\ (m.encryption # None)
               = OptionSet(ops[p].args.options.encryption)
  /\ \A p \in Finished("parseMetadata") :
       \A c \in LibraryContents, o \in BuildOptions :
         ops[p].args.json = serializeMetadata(buildMetadata(c, o))
           => ops[p].outcome = Return(buildMetadata(c, o))

\* a serialized metadata with an escaped standard and an encryption, parsed
C19_Witness ==
  \E p \in Finished("parseMetadata") :
    /\ Returned(ops[p])
    /\ Get(ops[p].outcome.value).provenance_standard = Some(<<118, 34, 92>>)
    /\ Get(ops[p].outcome.value).encryption = Some(<<97, 101, 115>>)
    /\ Len(ops[p].args.json) > 60

C19_WitnessBare ==
  \E p \in Finished("parseMetadata") :
    /\ Returned(ops[p])
    /\ Get(ops[p].outcome.value).provenance_standard = None
    /\ Get(ops[p].outcome.value).encryption = None

C19_WitnessSerialized ==
  \E p \in Finished("serializeMetadata") :
    /\ ops[p].args.options.standard = Some(<<>>)
    /\ ops[p].args.options.encryption = Some(<<97, 101, 115>>)
    /\ ops[p].args.content = Str(<<233>>)

PaymentModeFree(req) ==
  /\ req.headers.XPaymentMode = Some("free")
  /\ req.url.path = "/api/v1/pool/acquire"
       => req.headers.ContentType = Some("application/json")

\* C20: every request of every operation carries X-Payment-Mode: free (no
\* operation sets that header itself), and the Content-Type that
\* acquireStamp passes is kept.
C20_EveryRequestPaymentModeFree ==
  \A p \in DOMAIN ops :
    \A i \in DOMAIN ops[p].reqs : PaymentModeFree(ops[p].reqs[i])

\* a request sent without the header
C20_RequestWithoutPaymentMode ==
  \E p \in Invocations("health") :
    /\ Len(ops[p].reqs) = 1
    /\ ops[p].reqs[1].headers.XPaymentMode = None
    /\ client.build = "cjs"

\* an acquireStamp request of the source build with both headers
SourceRequestPaymentModeFree ==
  \E p \in Invocations("acquireStamp") :
    /\ Len(ops[p].reqs) = 1
    /\ client.build = "esm"
    /\ PaymentModeFree(ops[p].reqs[1])

\* two invocations that are the same call and got the same answers
SameCall(o1, o2) ==
  /\ o1.kind = o2.kind
  /\ o1.args = o2.args
  /\ o1.received = o2.received

\* a step changes the invocation of one caller only, and not the client
OwnStep ==
  /\ client' = client
  /\ \A p \in DOMAIN ops :
       \A q \in DOMAIN ops \ {p} : ops'[p] # ops[p] => ops'[q] = ops[q]

\* C21: with two callers on one client, in every interleaving, an
\* invocation's requests, position and outcome are determined by its call
\* and the answers to its own requests; every request in flight has its own
\* armed timer and has not been aborted; and a step (a call, an answer, a
\* failure, a timer firing) changes the invocation of one caller only, so
\* the timeout or failure of one request never aborts or changes another.
C21_NoInterference ==
  /\ [](\A p \in DOMAIN ops : \A q \in DOMAIN ops :
          SameCall(ops[p], ops[q]) =>
            /\ ops[p].reqs = ops[q].reqs
            /\ ops[p].pc = ops[q].pc
            /\ ops[p].outcome = ops[q].outcome)
  /\ [](\A p \in DOMAIN ops : \A i \in DOMAIN ops[p].reqs :
          InFlight(ops[p], i) =>
            ops[p].reqs[i].timer = "armed" /\ ~ops[p].reqs[i].aborted)
  /\ [][OwnStep]_vars

\* the first caller's upload was ended by the timer of its POST while the
\* second caller's download is still awaiting its notary-info request
C21_Witness ==
  /\ ops["first"].kind = "upload"
  /\ Threw(ops["first"])
  /\ Len(ops["first"].reqs) = 2
  /\ ops["first"].reqs[2].aborted
  /\ ops["second"].kind = "download"
  /\ Len(ops["second"].reqs) = 2
  /\ InFlight(ops["second"], 2)

\* both callers ran the same download with the same answers
C21_WitnessSameCall ==
  /\ ops["first"].kind = "download"
  /\ ops["first"].pc = "done"
  /\ Len(ops["first"].received) = 2
  /\ SameCall(ops["first"], ops["second"])

\* what of a request is sent to the gateway
Sent(req) ==
  [method |-> req.method, url |-> req.url, headers |-> req.headers,
   body |-> req.body, timeout |-> req.timeout]

\* the same call issues the same i-th request after the same answers
Repeats(o1, o2) ==
  \A i \in DOMAIN o1.reqs \cap DOMAIN o2.reqs :
    (\A j \in 1..(i - 1) : o1.received[j] = o2.received[j])
      => Sent(o1.reqs[i]) = Sent(o2.reqs[i])

\* an upload without a caller stamp asks the pool in its own first request
FreshAcquire(o) ==
  (o.kind = "upload" /\ ~StampSupplied(o))
    => /\ IsRequest(o.reqs[1], "POST", "/api/v1/pool/acquire")
       /\ Len(o.reqs) = 2 =>
            /\ GotOk(o, 1)
            /\ o.reqs[2].url.query.stamp_id = Some(BodyOf(o, 1).batch_id)

\* a download that reports verified asked for the notary info itself
FreshNotaryInfo(o) ==
  (o.kind = "download" /\ Returned(o)
     /\ Get(o.outcome.value).verified # None)
    => /\ Len(o.reqs) = 2
       /\ IsRequest(o.reqs[2], "GET", "/api/v1/notary/info")
       /\ Len(o.received) = 2

\* C22: no step changes the client's gatewayUrl and timeout; a caller with
\* no call in progress holds nothing of an earlier one; every upload
\* without a caller stampId issues its own acquire request and uses the
\* stamp it returned, every verifying download of a signed document issues
\* its own notary-info request, and an operation that is repeated issues
\* the same requests again.
C22_NothingCached ==
  /\ [](\A p \in DOMAIN ops :
          /\ ops[p].pc = "idle" => ops[p] = IdleOp
          /\ FreshAcquire(ops[p])
          /\ FreshNotaryInfo(ops[p])
          /\ \A q \in DOMAIN ops :
               (ops[p].kind = ops[q].kind /\ ops[p].args = ops[q].args)
                 => Repeats(ops[p], ops[q]))
  /\ [][client' = client]_vars

\* an upload without stampId has ended with its stamp acquired, and the same
\* upload, made again, has acquired a stamp of its own and sent its POST
C22_Witness ==
  /\ ops["first"].kind = "upload"
  /\ ~StampSupplied(ops["first"])
  /\ Returned(ops["first"])
  /\ ops["second"].kind = "upload"
  /\ ops["second"].args = ops["first"].args
  /\ Len(ops["second"].reqs) = 2
  /\ IsRequest(ops["second"].reqs[1], "POST", "/api/v1/pool/acquire")

C22_WitnessDownload ==
  /\ ops["first"].kind = "download"
  /\ Returned(ops["first"])
  /\ Get(ops["first"].outcome.value).verified = Some(TRUE)
  /\ ops["second"].kind = "download"
  /\ Len(ops["second"].reqs) = 2
  /\ InFlight(ops["second"], 2)

\* C23: every error that notaryInfo, poolStatus, acquireStamp, upload or
\* download throws is a ProvenanceError, GatewayConnectionError, StampError,
\* NotaryError or VerificationError, whatever the gateway answers, a 2xx
\* answer without a JSON body or without the expected fields included.
C23_OnlyTypedErrors ==
  \A p \in DOMAIN ops :
    (ops[p].kind \in {"notaryInfo", "poolStatus", "acquireStamp", "upload",
                      "download"}
       /\ Threw(ops[p]))
      => Get(ops[p].outcome.error).cls \in TypedErrors

\* a download answered 200 without a JSON body throws a SyntaxError
C23_UntypedError ==
  \E p \in Invocations("download") :
    /\ GotOk(ops[p], 1)
    /\ ~Get(ops[p].received[1].response).json
    /\ Threw(ops[p])
    /\ Get(ops[p].outcome.error).cls = "SyntaxError"

\* a download answered 200 with a JSON object without data throws a TypeError
C23_UntypedErrorNoData ==
  \E p \in Invocations("download") :
    /\ GotJson(ops[p], 1)
    /\ BodyMetadata(BodyOf(ops[p], 1)).data = None
    /\ Threw(ops[p])
    /\ Get(ops[p].outcome.error).cls = "TypeError"

\* the stamp id an upload resolved: the caller's, or the acquired batch id
ResolvedStamp(o) ==
  IF StampSupplied(o) THEN Get(o.args.stampId) ELSE BodyOf(o, 1).batch_id

\* the metadata upload builds from its own arguments
LocalMetadata(o) ==
  buildMetadata(Bytes(toBytes(o.args.content)),
                [stampId |-> ResolvedStamp(o),
                 standard |-> o.args.standard,
                 encryption |-> None])

\* C24: when the upload POST is answered 2xx the upload returns; the result's
\* signedDocument is the gateway's signed_document (metadata and signatures
\* as they came, with no hash or signature check) when one is attached and
\* absent otherwise, and the result's metadata is the locally built metadata.
C24_SignedDocumentSurfaced ==
  \A p \in Invocations("upload") :
    LET o == ops[p]
    IN (PostSettled(o) /\ GotJson(o, Len(o.received)))
       => LET data == BodyOf(o, Len(o.received))
              result == Get(o.outcome.value)
          IN /\ o.pc = "done"
             /\ Returned(o)
             /\ result.reference = data.reference
             /\ result.metadata = LocalMetadata(o)
             /\ (data.signed_document = None) <=> (result.signedDocument = None)
             /\ data.signed_document # None
                => /\ Get(result.signedDocument).metadata
                        = Get(data.signed_document).metadata
                   /\ Get(result.signedDocument).signatures
                        = Get(data.signed_document).signatures

\* C24 witness: a signing upload returned a signed document whose metadata
\* is not the uploaded metadata and whose only signature does not verify
C24_Witness ==
  \E p \in Finished("upload") :
    LET o == ops[p]
    IN /\ Returned(o)
       /\ o.args.sign = Some("notary")
       /\ Get(o.outcome.value).signedDocument # None
       /\ LET document == Get(Get(o.outcome.value).signedDocument)
          IN /\ document.metadata # Get(o.outcome.value).metadata
             /\ document.metadata.content_hash
                  # Get(o.outcome.value).metadata.content_hash
             /\ ~verifyAllSignatures(document.signatures,
                                     document.metadata, None).allValid
             /\ ~verifyDataHash(document.signatures[1], document.metadata)

\* C24 witness: an upload returned without a signed document
C24_WitnessAbsent ==
  \E p \in Finished("upload") :
    /\ Returned(ops[p])
    /\ Get(ops[p].outcome.value).signedDocument = None
    /\ GotJson(ops[p], Len(ops[p].received))

\* /^[0-9a-fA-F]+$/
isValidHex(str) ==
  /\ Len(str) > 0
  /\ \A i \in 1..Len(str) :
       str[i] \in (48..57) \cup (97..102) \cup (65..70)

isValidSwarmReference(ref) == Len(ref) = 64 /\ isValidHex(ref)

\* the white space String.prototype.trim removes, among the code points of
\* the model
WhiteSpace == {9, 10, 11, 12, 13, 32, 160}

RECURSIVE TrimStart(_)
TrimStart(s) ==
  IF s # <<>> /\ Head(s) \in WhiteSpace THEN TrimStart(Tail(s)) ELSE s

RECURSIVE TrimEnd(_)
TrimEnd(s) ==
  IF s # <<>> /\ s[Len(s)] \in WhiteSpace
  THEN TrimEnd(SubSeq(s, 1, Len(s) - 1)) ELSE s

\* String.prototype.toLowerCase on the Latin letters
LowerCase(s) ==
  [i \in 1..Len(s) |->
     IF s[i] \in (65..90) \cup ((192..222) \ {215}) THEN s[i] + 32 ELSE s[i]]

normalizeReference(ref) == LowerCase(TrimEnd(TrimStart(ref)))

\* the GET requests download has issued for a reference
ReferenceRequests(o) ==
  {i \in 1..Len(o.reqs) : IsRequest(o.reqs[i], "GET", "/api/v1/data/")}

\* C25: download issues GET /api/v1/data/{reference} only for a reference
\* that, trimmed and lower-cased, is 64 hex characters, and the path carries
\* the normalized form.
C25_ReferenceNormalized ==
  \A p \in Invocations("download") :
    \A i \in ReferenceRequests(ops[p]) :
      /\ isValidSwarmReference(normalizeReference(ops[p].args.reference))
      /\ ops[p].reqs[i].url.ref
           = Some(normalizeReference(ops[p].args.reference))

\* C25: a GET was issued for a reference of two characters
C25_InvalidReferenceRequested ==
  \E p \in Invocations("download") :
    \E i \in ReferenceRequests(ops[p]) :
      /\ ~isValidSwarmReference(normalizeReference(ops[p].args.reference))
      /\ ops[p].reqs[i].url.ref = Some(ops[p].args.reference)

\* C25: a GET was issued with the caller's spelling of a reference whose
\* normalized form is valid
C25_RawReferenceRequested ==
  \E p \in Invocations("download") :
    \E i \in ReferenceRequests(ops[p]) :
      /\ isValidSwarmReference(normalizeReference(ops[p].args.reference))
      /\ normalizeReference(ops[p].args.reference) # ops[p].args.reference
      /\ ops[p].reqs[i].url.ref = Some(ops[p].args.reference)

\* the acquire request of upload o has settled without a 2xx response
AcquireFailed(o) ==
  /\ o.kind = "upload"
  /\ ~StampSupplied(o)
  /\ Len(o.received) >= 1
  /\ (o.received[1].threw \/ GotNotOk(o, 1))

PostRequests(o) ==
  {i \in 1..Len(o.reqs) : IsRequest(o.reqs[i], "POST", "/api/v1/data/")}

\* C26: an upload whose stamp acquisition failed has ended with that error
\* (a StampError with the gateway's message and code for a non-2xx response,
\* whatever the sign option; the transport error otherwise) and has issued
\* no upload POST, then or later; a POST is issued only with a stamp id that
\* was supplied or acquired.
C26_AcquireFailureEndsUpload ==
  /\ [](\A p \in Invocations("upload") :
          LET o == ops[p]
          IN /\ AcquireFailed(o)
                => /\ o.pc = "done"
                   /\ Threw(o)
                   /\ o.outcome.value = None
                   /\ Len(o.reqs) = 1
                   /\ PostRequests(o) = {}
                   /\ IF o.received[1].threw
                      THEN o.outcome.error = o.received[1].error
                      ELSE LET response == Get(o.received[1].response)
                           IN o.outcome.error
                                = Some(StampError(ReportedMessage(response),
                                                  ReportedCode(response)))
             /\ \A i \in PostRequests(o) :
                  /\ StampSupplied(o) \/ (i = 2 /\ GotJson(o, 1))
                  /\ o.reqs[i].url.query.stamp_id = Some(ResolvedStamp(o)))
  /\ [][\A p \in DOMAIN ops :
          AcquireFailed(ops[p]) => PostRequests(ops'[p]) = {}]_vars

\* C26 witness: a signing upload without a stamp got a 500 from the pool and
\* ended with a StampError after its one request
C26_Witness ==
  \E p \in Finished("upload") :
    LET o == ops[p]
    IN /\ AcquireFailed(o)
       /\ o.args.sign = Some("notary")
       /\ GotNotOk(o, 1)
       /\ Get(o.outcome.error).cls = "StampError"
       /\ Len(o.reqs) = 1

\* C26 witness: the acquire request of an upload failed in transport
C26_WitnessTransport ==
  \E p \in Finished("upload") :
    LET o == ops[p]
    IN /\ AcquireFailed(o)
       /\ o.received[1].threw
       /\ Get(o.outcome.error).cls = "GatewayConnectionError"

\* the notary-info request of download o failed: a non-2xx response other
\* than 404, or a transport failure or timeout
NotaryInfoFailed(o) ==
  /\ VerificationDue(o)
  /\ Len(o.received) >= 2
  /\ \/ o.received[2].threw
     \/ GotNotOk(o, 2) /\ Get(o.received[2].response).status # 404

\* C27: a download whose content hash is valid, whose signatures are
\* non-empty and whose verification is enabled, and whose notary-info
\* request failed (non-2xx other than 404, network failure or timeout) has
\* raised that GatewayConnectionError and returned no DownloadResult.
C27_NotaryFailureFailsDownload ==
  \A p \in Invocations("download") :
    LET o == ops[p]
    IN NotaryInfoFailed(o)
       => /\ o.pc = "done"
          /\ Threw(o)
          /\ o.outcome.value = None
          /\ o.locals.file # None
          /\ Get(o.outcome.error).cls = "GatewayConnectionError"
          /\ IF o.received[2].threw
             THEN o.outcome.error = o.received[2].error
             ELSE LET response == Get(o.received[2].response)
                  IN /\ Get(o.outcome.error).statusCode = Some(response.status)
                     /\ Get(o.outcome.error).message = ReportedMessage(response)
                     /\ Get(o.outcome.error).code = ReportedCode(response)

\* C27 witness: the notary-info request of a download with a valid content
\* hash and a signature got a 500
C27_Witness ==
  \E p \in Finished("download") :
    LET o == ops[p]
    IN /\ NotaryInfoFailed(o)
       /\ GotNotOk(o, 2)
       /\ Get(o.received[2].response).status = 500
       /\ Threw(o)

\* C27 witness: the notary-info request of such a download timed out
C27_WitnessTimeout ==
  \E p \in Finished("download") :
    LET o == ops[p]
    IN /\ NotaryInfoFailed(o)
       /\ o.received[2].threw
       /\ o.reqs[2].aborted
       /\ Get(o.outcome.error).code = Some("TIMEOUT")

\* the hashed_fields lists the claim gives as examples
ExampleFieldLists == {<<"content_hash">>, <<"content_hash", "stamp_id">>}

\* C28: a signature over hashed_fields = ['content_hash'] or
\* ['content_hash', 'stamp_id'] that carries the digest of the concatenated
\* values is accepted by the raw-concatenation verifyDataHash and rejected by
\* the canonical-JSON one, and a signature that carries the digest of the
\* canonical JSON is accepted by the canonical-JSON one and rejected by the
\* other: the two verifiers are different predicates.
C28_NotInterchangeable ==
  /\ \A p \in Finished("verifyDataHash") :
       LET a == ops[p].args
       IN (/\ a.signature.hashed_fields \in ExampleFieldLists
           /\ a.signature.data_hash
                = ConcatHash(a.signature.hashed_fields, a.metadata))
          => /\ ops[p].outcome.value = Some(TRUE)
             /\ ~verifyDataHashCanonical(a.signature, a.metadata)
  /\ \A p \in Finished("verifyDataHashCanonical") :
       LET a == ops[p].args
       IN (/\ a.signature.hashed_fields \in ExampleFieldLists
           /\ a.signature.data_hash
                = CanonicalHash(a.signature.hashed_fields, a.metadata))
          => /\ ops[p].outcome.value = Some(TRUE)
             /\ ~verifyDataHash(a.signature, a.metadata)

\* C28 witness: the concatenation verifier accepted a signature over
\* content_hash and stamp_id that the canonical-JSON verifier rejects
C28_Witness ==
  \E p \in Finished("verifyDataHash") :
    LET a == ops[p].args
    IN /\ a.signature.hashed_fields = <<"content_hash", "stamp_id">>
       /\ ops[p].outcome.value = Some(TRUE)
       /\ ~verifyDataHashCanonical(a.signature, a.metadata)

\* C28 witness: the canonical-JSON verifier accepted a signature over
\* content_hash that the concatenation verifier rejects
C28_WitnessCanonical ==
  \E p \in Finished("verifyDataHashCanonical") :
    LET a == ops[p].args
    IN /\ a.signature.hashed_fields = <<"content_hash">>
       /\ ops[p].outcome.value = Some(TRUE)
       /\ ~verifyDataHash(a.signature, a.metadata)

\* the names a hashed_fields list holds
FieldNames(hashedFields) == {hashedFields[i] : i \in DOMAIN hashedFields}

\* the lists of two or more entries that hold the same names as the given
\* list, in another order or repeated
Rearrangements(hashedFields) ==
  {g \in HashedFieldLists :
     Len(g) >= 2 /\ FieldNames(g) = FieldNames(hashedFields)}

\* C29: the canonical-JSON verifyDataHash gives, for a signature whose
\* hashed_fields list has two or more entries, the same result as for the
\* signature with the names of that list permuted or repeated, against the
\* same metadata.
C29_OrderAndRepetitionIgnored ==
  \A p \in Finished("verifyDataHashCanonical") :
    LET a == ops[p].args
    IN Len(a.signature.hashed_fields) >= 2
       => \A g \in Rearrangements(a.signature.hashed_fields) :
            verifyDataHashCanonical([a.signature EXCEPT !.hashed_fields = g],
                                    a.metadata)
              = Get(ops[p].outcome.value)

\* C29 witness: a signature over stamp_id, content_hash, stamp_id was accepted
\* with the digest of the canonical JSON of content_hash and stamp_id
C29_Witness ==
  \E p \in Finished("verifyDataHashCanonical") :
    LET a == ops[p].args
    IN /\ a.signature.hashed_fields = <<"stamp_id", "content_hash", "stamp_id">>
       /\ <<"content_hash", "stamp_id">>
            \in Rearrangements(a.signature.hashed_fields)
       /\ a.signature.data_hash
            = CanonicalHash(<<"content_hash", "stamp_id">>, a.metadata)
       /\ ops[p].outcome.value = Some(TRUE)

\* C29 witness: a signature with the names in the other order was rejected
\* together with its rearrangements
C29_WitnessRejected ==
  \E p \in Finished("verifyDataHashCanonical") :
    LET a == ops[p].args
    IN /\ a.signature.hashed_fields = <<"stamp_id", "content_hash">>
       /\ Cardinality(Rearrangements(a.signature.hashed_fields)) = 3
       /\ ops[p].outcome.value = Some(FALSE)

\* the required fields in the order parseMetadata checks them
RequiredFields == <<"data", "content_hash", "stamp_id">>

\* the fields of the parsed value that are missing or not strings, by their
\* position in RequiredFields
Unusable(obj) ==
  {n \in DOMAIN RequiredFields :
     Property(obj, RequiredFields[n]).kind # "string"}

FieldMessage(field) ==
  CASE field = "data" -> "Invalid metadata: missing or invalid data field"
    [] field = "content_hash" ->
         "Invalid metadata: missing or invalid content_hash field"
    [] field = "stamp_id" ->
         "Invalid metadata: missing or invalid stamp_id field"

\* the string member of the parsed value under an optional field, if any
StringMember(obj, field) ==
  IF Property(obj, field).kind = "string"
  THEN Some(Property(obj, field).s) ELSE None

\* the outcome of parseMetadata on a parsed value whose kind is among the
\* given kinds of object: the first required field that is missing or not a
\* string is named, and a value with all three is returned without its
\* unknown members and with its string-typed optional members
FieldsChecked(o, obj) ==
  IF Unusable(obj) # {}
  THEN LET first == CHOOSE n \in Unusable(obj) :
                      \A other \in Unusable(obj) : n <= other
       IN o.outcome = Throw(PlainError(FieldMessage(RequiredFields[first])))
  ELSE /\ Returned(o)
       /\ Get(o.outcome.value)
            = [data |-> StringMember(obj, "data"),
               content_hash |-> StringMember(obj, "content_hash"),
               stamp_id |-> StringMember(obj, "stamp_id"),
               provenance_standard |-> StringMember(obj, "provenance_standard"),
               encryption |-> StringMember(obj, "encryption"),
               signatures |-> None]

\* C30 as stated: parseMetadata of a JSON text that is not an object fails
\* with 'expected object'; of an object, it names the first of data,
\* content_hash, stamp_id that is missing or not a string, and succeeds when
\* all three are strings, dropping unknown fields and copying
\* provenance_standard and encryption only when they are strings.
C30_NonObjectRejected ==
  \A p \in Finished("parseMetadata") :
    LET o == ops[p]
        parsed == JsonParse(o.args.json)
    IN parsed.ok
       => IF parsed.value.kind # "object"
          THEN o.outcome
                 = Throw(PlainError("Invalid metadata: expected object"))
          ELSE FieldsChecked(o, parsed.value)

\* C30 amended: parseMetadata of a JSON text that is null, a number or a
\* string fails with 'expected object'; of an object or an array (which has
\* none of the fields, so that data is named), it names the first of data,
\* content_hash, stamp_id that is missing or not a string, and succeeds when
\* all three are strings, dropping unknown fields and copying
\* provenance_standard and encryption only when they are strings.
C30_FirstUnusableFieldNamed ==
  \A p \in Finished("parseMetadata") :
    LET o == ops[p]
        parsed == JsonParse(o.args.json)
    IN parsed.ok
       => IF parsed.value.kind \notin {"object", "array"}
          THEN o.outcome
                 = Throw(PlainError("Invalid metadata: expected object"))
          ELSE /\ FieldsChecked(o, parsed.value)
               /\ parsed.value.kind = "array"
                    => o.outcome = Throw(PlainError(FieldMessage("data")))

\* C30 witness: a text with content_hash null and stamp_id a number was
\* rejected naming content_hash
C30_Witness ==
  \E p \in Finished("parseMetadata") :
    LET obj == JsonParse(ops[p].args.json).value
    IN /\ JsonParse(ops[p].args.json).ok
       /\ Unusable(obj) = {2, 3}
       /\ ops[p].outcome
            = Throw(PlainError(
                "Invalid metadata: missing or invalid content_hash field"))

\* C30 witness: the empty array was rejected naming data
C30_WitnessArray ==
  \E p \in Finished("parseMetadata") :
    /\ ops[p].args.json = <<91, 93>>
    /\ ops[p].outcome
         = Throw(PlainError("Invalid metadata: missing or invalid data field"))

\* C30 witness: a text with an unknown member and a numeric
\* provenance_standard was accepted without them
C30_WitnessAccepted ==
  \E p \in Finished("parseMetadata") :
    LET obj == JsonParse(ops[p].args.json).value
    IN /\ Returned(ops[p])
       /\ \E i \in DOMAIN obj.members : obj.members[i].key = <<122>>
       /\ Property(obj, "provenance_standard").kind = "number"
       /\ Get(ops[p].outcome.value).provenance_standard = None
       /\ Get(ops[p].outcome.value).encryption = Some(<<101>>)

\* C30 witness: null was rejected with 'expected object'
C30_WitnessNull ==
  \E p \in Finished("parseMetadata") :
    /\ ops[p].args.json = <<110, 117, 108, 108>>
    /\ ops[p].outcome = Throw(PlainError("Invalid metadata: expected object"))

====
